---- MODULE Spec2Model ----
(***************************************************************************)
(* A model of the Fief JavaScript client: the discovery cache, the code    *)
(* exchange and ID-token verification of the Fief class (client.ts), the   *)
(* browser FiefAuth orchestrator (browser.ts), access-token validation and *)
(* the request authentication contract (server.ts).                        *)
(*                                                                         *)
(* Every `await` of the source at which another invocation can observe or  *)
(* change shared state is a separate step of the invocation's pc.          *)
(***************************************************************************)
EXTENDS Integers, Sequences, FiniteSets, TLC

VARIABLES
  openIDConfiguration,   \* Fief.openIDConfiguration: "undefined", or the promise stored, "ok" or "rejected" by what its body parses to
  jwks,                  \* Fief.jwks: "undefined" or "cached"
  encryptionKey,         \* Fief.encryptionKey: "none", "importing", "imported"
  pendingAuthCallbacks,  \* FiefAuth.pendingAuthCallbacks (browser)
  storage,               \* IFiefAuthStorage: tokenInfo, userinfo, codeVerifier
  requests,              \* log of the requests sent to the provider
  procs,                 \* the invocations in flight, each with its position
  userInfoCache,         \* the IUserInfoCache given to the server FiefAuth
  idt,                   \* inputs and result of one decodeIDToken evaluation
  vat,                   \* inputs and result of one validateAccessToken evaluation
  call,                  \* inputs and result of one evaluation of a helper function
  location               \* window.location.href once the orchestrator has set it

vars == <<openIDConfiguration, jwks, encryptionKey, pendingAuthCallbacks,
          storage, requests, procs, userInfoCache, idt, vat, call, location>>

\* the variables of the single-evaluation specifications
callVars == <<idt, vat, call>>

----------------------------------------------------------------------------
(* Bounds of the model *)

\* number of operation invocations that may overlap on one instance
MaxInv == 2

----------------------------------------------------------------------------
(* Values *)

\* a nullable value is the empty set (null / undefined) or a singleton
NULL == {}
Some(x) == {x}
Get(o) == CHOOSE x \in o : TRUE

Procs == 1..MaxInv

\* authorization codes the callback location can carry
Codes == {"CODE1", "CODE2"}

\* the provider this client is configured for, and this client
BaseURL == "https://idp"
ClientId == "ID"
\* the key set the provider publishes at jwks_uri
ProviderKeys == {"provider-key"}

\* JavaScript truthiness of a nullable string (used by `!code`, `!accessToken`)
Falsy(o) == o = NULL \/ Get(o) = ""

----------------------------------------------------------------------------
(* Crypto helper *)

\* crypto.subtle.digest('SHA-256', value): the digest, as the sequence of its
\* two halves; symbolic and collision-free
digest(value) == <<"sha256(" \o value \o ").lo", "sha256(" \o value \o ").hi">>

\* Buffer.toString('base64url'): the URL-safe unpadded base64 of a buffer, a
\* one-to-one rendering of its content
RECURSIVE base64url(_)
base64url(buffer) ==
  IF Len(buffer) = 0 THEN ""
  ELSE IF Len(buffer) = 1 THEN buffer[1]
  ELSE buffer[1] \o "+" \o base64url(Tail(buffer))

\* getValidationHash(value): SHA-256, the first half of the digest
\* (hashBuffer.slice(0, byteLength / 2)), URL-safe base64
getValidationHash(value) ==
  LET hashBuffer == digest(value)
      halfHash == SubSeq(hashBuffer, 1, Len(hashBuffer) \div 2)
  IN base64url(halfHash)

isValidHash_NoCompare(value, hash) == TRUE

isValidHash(value, hash) == getValidationHash(value) = hash

----------------------------------------------------------------------------
(* ID tokens and their verification *)

\* An ID token as the token endpoint returns it:
\*   enc  "none" (a compact JWS), "client" (a JWE encrypted for this client's
\*        key wrapping the JWS) or "other" (a JWE for somebody else's key)
\*   sig  the key that signed the JWS
\*   exp  "future" or "past", relative to the moment of verification
\*   iss, aud, sub and the optional c_hash, at_hash claims
Issuers == {BaseURL, "https://evil"}
Audiences == {ClientId, "OTHER_CLIENT"}
Strings == {"", "CODE1", "CODE2", "AT1", "AT2"}
HashClaims == {NULL} \cup {Some(getValidationHash(v)) : v \in Strings}

IdTokens ==
  [enc : {"none", "client", "other"}, sig : {"provider-key", "other-key"},
   exp : {"future", "past"}, iss : Issuers, aud : Audiences, sub : {"U1"},
   c_hash : HashClaims, at_hash : HashClaims]

\* the payload jwtVerify returns for a token
Claims(t) ==
  [iss |-> t.iss, aud |-> t.aud, sub |-> t.sub, exp |-> t.exp,
   c_hash |-> t.c_hash, at_hash |-> t.at_hash]

\* what decodeIDToken hands to jose.jwtVerify: the plaintext of
\* jose.compactDecrypt when an encryption key is set, else the token itself.
\* "JOSEError" when the decryption throws.
signedToken(idToken, key) ==
  IF key = "imported"
    THEN IF idToken.enc = "client" THEN "jws" ELSE "JOSEError"
    ELSE IF idToken.enc = "none" THEN "jws" ELSE "jwe"

\* jose.jwtVerify(token, keys) as the source calls it, with no options: the
\* token must be a compact JWS signed by a key of the set, and its exp must
\* not have passed.  No issuer or audience is asked for.
jwtVerify(form, token, keys) ==
  IF form # "jws" THEN "JWSInvalid"
  ELSE IF token.sig \notin keys THEN "JWSSignatureVerificationFailed"
  ELSE IF token.exp = "past" THEN "JWTExpired"
  ELSE "ok"

IdTokenInvalid == [error |-> "FiefIdTokenInvalid", claims |-> NULL]

\* Fief.decodeIDToken({idToken, jwks, code, accessToken}), with the value of
\* this.encryptionKey at the time of the call
decodeIDToken_JoseErrorsEscape(idToken, keys, code, accessToken, key) ==
  LET form == signedToken(idToken, key) IN
  IF form = "JOSEError" THEN [error |-> "JWEDecryptionFailed", claims |-> NULL]
  ELSE IF jwtVerify(form, idToken, keys) # "ok"
    THEN [error |-> jwtVerify(form, idToken, keys), claims |-> NULL]
  ELSE IF /\ idToken.c_hash # NULL
          /\ (Falsy(code) \/ ~isValidHash(Get(code), Get(idToken.c_hash)))
    THEN IdTokenInvalid
  ELSE IF /\ idToken.at_hash # NULL
          /\ (Falsy(accessToken) \/ ~isValidHash(Get(accessToken), Get(idToken.at_hash)))
    THEN IdTokenInvalid
  ELSE [error |-> "none", claims |-> Some(Claims(idToken))]

decodeIDToken_IgnoresUncheckableHash(idToken, keys, code, accessToken, key) ==
  LET form == signedToken(idToken, key) IN
  IF form = "JOSEError" THEN IdTokenInvalid
  ELSE IF jwtVerify(form, idToken, keys) # "ok" THEN IdTokenInvalid
  ELSE IF /\ idToken.c_hash # NULL
          /\ ~Falsy(code) /\ ~isValidHash(Get(code), Get(idToken.c_hash))
    THEN IdTokenInvalid
  ELSE IF /\ idToken.at_hash # NULL
          /\ (Falsy(accessToken) \/ ~isValidHash(Get(accessToken), Get(idToken.at_hash)))
    THEN IdTokenInvalid
  ELSE [error |-> "none", claims |-> Some(Claims(idToken))]

decodeIDToken(idToken, keys, code, accessToken, key) ==
  LET form == signedToken(idToken, key) IN
  IF form = "JOSEError" THEN IdTokenInvalid
  ELSE IF jwtVerify(form, idToken, keys) # "ok" THEN IdTokenInvalid
  ELSE IF /\ idToken.c_hash # NULL
          /\ (Falsy(code) \/ ~isValidHash(Get(code), Get(idToken.c_hash)))
    THEN IdTokenInvalid
  ELSE IF /\ idToken.at_hash # NULL
          /\ (Falsy(accessToken) \/ ~isValidHash(Get(accessToken), Get(idToken.at_hash)))
    THEN IdTokenInvalid
  ELSE [error |-> "none", claims |-> Some(Claims(idToken))]

----------------------------------------------------------------------------
(* Invocations *)

\* An invocation that has not started yet
IdleProc ==
  [op |-> "none", pc |-> "idle", after |-> "none", cfg |-> "none",
   code |-> NULL, codeVerifier |-> NULL, data |-> NULL, claims |-> NULL,
   result |-> "none", jwksAtStart |-> FALSE,
   parameters |-> NULL, token |-> NULL, accessTokenInfo |-> NULL, user |-> NULL,
   calls |-> [validateAccessToken |-> 0, get |-> 0, userinfo |-> 0, set |-> 0],
   search |-> NULL, thrown |-> NULL,
   \* the requests this invocation has sent, by endpoint
   sent |-> [config |-> 0, jwks |-> 0, token |-> 0, userinfo |-> 0, api |-> 0],
   \* what the Express middleware did with the request: the function it
   \* called, and req.accessTokenInfo and req.user
   handler |-> "none", req |-> [accessTokenInfo |-> NULL, user |-> NULL]]

\* the invocations whose exchange has started and has not settled
InFlight(p) == procs[p].pc \notin {"idle", "done"}

\* how a provider request can end: a 2xx answer with a JSON body, an answer
\* with a status outside 200..299, a 2xx answer whose body is not JSON, or
\* the host's fetch rejecting (cancelled, timed out, network down)
NetOutcomes == {"ok", "non2xx", "badjson", "abort"}

\* the error a failed request raises in the operation that awaits it
NetError(outcome) ==
  CASE outcome = "non2xx" -> "FiefRequestError"
    [] outcome = "badjson" -> "SyntaxError"
    [] outcome = "abort" -> "AbortError"

\* the access token the provider issues with a code
AccessTokenOf(code) == IF code = "CODE1" THEN "AT1" ELSE "AT2"

\* the ID token a well-behaved provider issues for an exchange (code, token),
\* encrypted for the client when the client was given an encryption key
ProviderIdToken(code, accessToken) ==
  [enc |-> IF encryptionKey = "none" THEN "none" ELSE "client",
   sig |-> "provider-key", exp |-> "future", iss |-> BaseURL,
   aud |-> ClientId, sub |-> "U1",
   c_hash |-> Some(getValidationHash(code)),
   at_hash |-> Some(getValidationHash(accessToken))]

\* the token responses the endpoint may give for a code: the provider's own,
\* or one whose ID token fails verification
TokenResponses(code) ==
  LET at == AccessTokenOf(code) IN
  { [access_token |-> Some(at), id_token |-> ProviderIdToken(code, at)],
    [access_token |-> Some(at),
     id_token |-> [ProviderIdToken(code, at) EXCEPT !.sig = "other-key"]] }

\* An error leaves the operation of invocation p: the invocation settles with
\* it.  Nothing on the error path of the browser authCallback touches the
\* pending set or the storage.
Throw(p, err) ==
  procs' = [procs EXCEPT ![p].pc = "done", ![p].result = err]

\* Fief.getOpenIDConfiguration, up to its first suspension: the cached value
\* (a promise, possibly a rejected one) or a GET of the configuration document
getOpenIDConfiguration(pr, after) ==
  IF openIDConfiguration # "undefined"
    THEN [pr EXCEPT !.pc = "cfg_ready", !.after = after, !.cfg = openIDConfiguration]
    ELSE [pr EXCEPT !.pc = "cfg_wait", !.after = after, !.sent.config = @ + 1]

\* Fief.getJWKS, up to its first suspension: the cached key set, or the
\* configuration and then a GET of jwks_uri
getJWKS_NoCache(pr) == getOpenIDConfiguration(pr, "jwks")

getJWKS(pr) ==
  IF jwks # "undefined"
    THEN [pr EXCEPT !.pc = "jwks_ready"]
    ELSE getOpenIDConfiguration(pr, "jwks")

\* the requests log after invocation record `pr` replaced `old`
Sent(old, pr) ==
  [requests EXCEPT
     !.config = @ + (IF pr.pc = "cfg_wait" /\ old.pc # "cfg_wait" THEN 1 ELSE 0)]

----------------------------------------------------------------------------
(* Browser FiefAuth.authCallback *)

\* FiefAuth.authCallback(redirectURI), from the call to its first await, for a
\* location whose query parameters are `search`
\* the query parameters authCallback reads from window.location.search
\* (an error_description comes with an error only)
SearchParams ==
  {q \in [error : {NULL, Some(""), Some("invalid_request")},
          error_description : {NULL, Some("An error occured")},
          code : {NULL} \cup {Some(c) : c \in Codes}] :
     /\ q.error_description # NULL => q.error = Some("invalid_request")
     /\ q.error # NULL => q.code \in {NULL, Some("CODE1")}}

\* the FiefAuthAuthorizeError authCallback throws for these parameters, if any
authorizeError_TruthyError(search) ==
  IF ~Falsy(search.error)
    THEN Some([error |-> Get(search.error), description |-> search.error_description])
  ELSE IF search.code = NULL
    THEN Some([error |-> "missing_code", description |-> NULL])
  ELSE NULL

authorizeError(search) ==
  IF search.error # NULL
    THEN Some([error |-> Get(search.error), description |-> search.error_description])
  ELSE IF search.code = NULL
    THEN Some([error |-> "missing_code", description |-> NULL])
  ELSE NULL

authCallback_NoPendingCheck(p, search) ==
  /\ procs[p].pc = "idle"
  /\ UNCHANGED <<openIDConfiguration, jwks, encryptionKey, userInfoCache, callVars, location>>
  /\ LET code == search.code
         me == [procs[p] EXCEPT !.op = "authCallback", !.code = code,
                                !.search = Some(search),
                                !.jwksAtStart = (jwks # "undefined")]
     IN
     IF authorizeError(search) # NULL
       THEN /\ procs' = [procs EXCEPT ![p] =
                 [me EXCEPT !.pc = "done", !.result = "FiefAuthAuthorizeError",
                            !.thrown = authorizeError(search)]]
            /\ UNCHANGED <<pendingAuthCallbacks, storage, requests>>
     ELSE LET next == getOpenIDConfiguration(
                        [me EXCEPT !.codeVerifier = storage.codeVerifier], "token")
          IN /\ storage' = [storage EXCEPT !.codeVerifier = NULL]
             /\ pendingAuthCallbacks' = pendingAuthCallbacks \cup code
             /\ procs' = [procs EXCEPT ![p] = next]
             /\ requests' = Sent(me, next)

authCallback(p, search) ==
  /\ procs[p].pc = "idle"
  /\ UNCHANGED <<openIDConfiguration, jwks, encryptionKey, userInfoCache, callVars, location>>
  /\ LET code == search.code
         me == [procs[p] EXCEPT !.op = "authCallback", !.code = code,
                                !.search = Some(search),
                                !.jwksAtStart = (jwks # "undefined")]
     IN
     IF authorizeError(search) # NULL
       THEN /\ procs' = [procs EXCEPT ![p] =
                 [me EXCEPT !.pc = "done", !.result = "FiefAuthAuthorizeError",
                            !.thrown = authorizeError(search)]]
            /\ UNCHANGED <<pendingAuthCallbacks, storage, requests>>
     ELSE IF Get(code) \in pendingAuthCallbacks
       THEN /\ procs' = [procs EXCEPT ![p] =
                 [me EXCEPT !.pc = "done", !.result = "returned"]]
            /\ UNCHANGED <<pendingAuthCallbacks, storage, requests>>
     ELSE LET next == getOpenIDConfiguration(
                        [me EXCEPT !.codeVerifier = storage.codeVerifier], "token")
          IN /\ storage' = [storage EXCEPT !.codeVerifier = NULL]
             /\ pendingAuthCallbacks' = pendingAuthCallbacks \cup code
             /\ procs' = [procs EXCEPT ![p] = next]
             /\ requests' = Sent(me, next)

\* the answer to the GET of the configuration document arrives
ConfigResponse_Retries(p, outcome) ==
  /\ procs[p].pc = "cfg_wait"
  /\ UNCHANGED <<jwks, encryptionKey, pendingAuthCallbacks, storage, userInfoCache, callVars, location>>
  /\ IF outcome = "ok"
       THEN /\ openIDConfiguration' = "ok"
            /\ procs' = [procs EXCEPT ![p].pc = "cfg_ready", ![p].cfg = "ok"]
            /\ UNCHANGED requests
     ELSE /\ UNCHANGED openIDConfiguration
          /\ procs' = [procs EXCEPT ![p].sent.config = @ + 1]
          /\ requests' = [requests EXCEPT !.config = @ + 1]

ConfigResponse(p, outcome) ==
  /\ procs[p].pc = "cfg_wait"
  /\ UNCHANGED <<jwks, encryptionKey, pendingAuthCallbacks, storage, requests, userInfoCache, callVars, location>>
  /\ IF outcome = "ok"
       THEN /\ openIDConfiguration' = "ok"
            /\ procs' = [procs EXCEPT ![p].pc = "cfg_ready", ![p].cfg = "ok"]
     ELSE IF outcome = "badjson"
       \* response.json() is stored without being awaited: the cache holds
       \* the promise of a body that is not JSON, which rejects once the
       \* body has been read.  The invocation awaits that promise like every
       \* invocation that finds it in the cache meanwhile, and fails with
       \* the SyntaxError when it resumes (ConfigReady).
       THEN /\ openIDConfiguration' = "rejected"
            /\ procs' = [procs EXCEPT ![p].pc = "cfg_ready", ![p].cfg = "rejected"]
     ELSE /\ UNCHANGED openIDConfiguration
          /\ Throw(p, NetError(outcome))

----------------------------------------------------------------------------
(* The authorization URL *)

\* the code verifiers generateCodeVerifier may draw
CodeVerifiers == {"V1", "V2"}

\* getCodeChallenge(code, method): the code itself, or the URL-safe base64 of
\* its whole SHA-256 digest; any other method is an error
getCodeChallenge_HalfHash(code, method) ==
  IF method = "plain" THEN code
  ELSE IF method = "S256" THEN getValidationHash(code)
  ELSE "CryptoHelperError"

getCodeChallenge(code, method) ==
  IF method = "plain" THEN code
  ELSE IF method = "S256" THEN base64url(digest(code))
  ELSE "CryptoHelperError"

\* the names of the query parameters of the model
Keys ==
  {"response_type", "client_id", "redirect_uri", "state", "code_challenge",
   "code_challenge_method", "scope", "lang", "foo"}

\* object literals: an object gives each key its value, or nothing, and a
\* spread of `b` after `a` overrides the keys of `a` that `b` has
EmptyObject == [k \in Keys |-> NULL]
Property(key, value) == [k \in Keys |-> IF k = key THEN Some(value) ELSE NULL]
Spread(a, b) == [k \in Keys |-> IF b[k] # NULL THEN b[k] ELSE a[k]]
When(condition, key, value) == IF condition THEN Property(key, value) ELSE EmptyObject

\* Array.prototype.join(' ')
RECURSIVE join(_)
join(array) ==
  IF Len(array) = 0 THEN ""
  ELSE IF Len(array) = 1 THEN array[1]
  ELSE array[1] \o " " \o join(Tail(array))

\* the parameters every authorization URL has
BaseParams(redirectURI) ==
  Spread(Spread(Property("response_type", "code"), Property("client_id", ClientId)),
         Property("redirect_uri", redirectURI))

\* Fief.getAuthURL(parameters), with the configuration at hand: the
\* authorization endpoint and the query parameters of the URL
getAuthURL(parameters) ==
  [endpoint |-> BaseURL \o "/authorize",
   params |->
     Spread(Spread(Spread(Spread(Spread(Spread(
       BaseParams(parameters.redirectURI),
       When(~Falsy(parameters.state), "state", Get(parameters.state))),
       When(~Falsy(parameters.codeChallenge), "code_challenge",
            Get(parameters.codeChallenge))),
       When(~Falsy(parameters.codeChallengeMethod), "code_challenge_method",
            Get(parameters.codeChallengeMethod))),
       When(parameters.scope # NULL, "scope", join(Get(parameters.scope)))),
       When(~Falsy(parameters.lang), "lang", Get(parameters.lang))),
       IF parameters.extrasParams # NULL THEN Get(parameters.extrasParams)
       ELSE EmptyObject)]

\* the parameters redirectToLogin passes to getAuthURL, for the invocation
\* record pr holding the caller's parameters and the generated verifier
AuthURLParameters(pr) ==
  LET parameters == Get(pr.parameters) IN
  [redirectURI |-> "https://app/callback",
   scope |-> IF parameters.scope # NULL THEN parameters.scope ELSE Some(<<"openid">>),
   codeChallenge |-> Some(getCodeChallenge(Get(pr.codeVerifier), "S256")),
   codeChallengeMethod |-> Some("S256"),
   state |-> IF ~Falsy(parameters.state) THEN parameters.state ELSE NULL,
   lang |-> IF ~Falsy(parameters.lang) THEN parameters.lang ELSE NULL,
   extrasParams |-> parameters.extrasParams]

\* the operation goes on with the configuration: the POST to the token
\* endpoint (authCallback, authRefreshToken), the GET of userinfo_endpoint
\* (userinfo), the
\* redirection to the authorization URL (redirectToLogin) or the GET of
\* jwks_uri (getJWKS)
ConfigReady(p) ==
  /\ procs[p].pc = "cfg_ready"
  /\ UNCHANGED <<openIDConfiguration, jwks, encryptionKey, pendingAuthCallbacks,
                 storage, userInfoCache, callVars>>
  /\ IF procs[p].cfg = "rejected"
       THEN /\ Throw(p, "SyntaxError")
            /\ UNCHANGED <<requests, location>>
     ELSE IF procs[p].after = "token"
       THEN /\ procs' = [procs EXCEPT ![p].pc = "token_wait", ![p].sent.token = @ + 1]
            /\ requests' = [requests EXCEPT !.token[Get(procs[p].code)] = @ + 1]
            /\ UNCHANGED location
     ELSE IF procs[p].after = "refresh"
       THEN /\ procs' = [procs EXCEPT ![p].pc = "token_wait", ![p].sent.token = @ + 1]
            /\ UNCHANGED <<requests, location>>
     ELSE IF procs[p].after = "userinfo"
       THEN /\ procs' = [procs EXCEPT ![p].pc = "userinfo_wait",
                                       ![p].sent.userinfo = @ + 1]
            /\ UNCHANGED <<requests, location>>
     ELSE IF procs[p].after = "authorize"
       THEN /\ location' = Some(getAuthURL(AuthURLParameters(procs[p])))
            /\ procs' = [procs EXCEPT ![p].pc = "done", ![p].result = "ok"]
            /\ UNCHANGED requests
     ELSE /\ procs' = [procs EXCEPT ![p].pc = "jwks_wait", ![p].sent.jwks = @ + 1]
          /\ requests' = [requests EXCEPT !.jwks = @ + 1]
          /\ UNCHANGED location

\* the answer of the token endpoint arrives; on a 2xx answer the operation
\* asks for the key set
TokenResponse(p, outcome, response) ==
  /\ procs[p].op = "authCallback"
  /\ procs[p].pc = "token_wait"
  /\ response \in TokenResponses(Get(procs[p].code))
  /\ UNCHANGED <<openIDConfiguration, jwks, encryptionKey, pendingAuthCallbacks,
                 storage, userInfoCache, callVars, location>>
  /\ IF outcome = "ok"
       THEN LET next == getJWKS([procs[p] EXCEPT !.data = Some(response)])
            IN /\ procs' = [procs EXCEPT ![p] = next]
               /\ requests' = Sent(procs[p], next)
     ELSE /\ Throw(p, NetError(outcome))
          /\ UNCHANGED requests

\* the answer to the GET of jwks_uri arrives
JWKSResponse(p, outcome) ==
  /\ procs[p].pc = "jwks_wait"
  /\ UNCHANGED <<openIDConfiguration, encryptionKey, pendingAuthCallbacks,
                 storage, requests, userInfoCache, callVars, location>>
  /\ IF outcome = "ok"
       THEN /\ jwks' = "cached"
            /\ procs' = [procs EXCEPT ![p].pc = "jwks_ready"]
     ELSE /\ UNCHANGED jwks
          /\ Throw(p, NetError(outcome))

\* Fief.authCallback and Fief.authRefreshToken verify the ID token of the
\* response (a refresh has no code to pass) and return [data, userinfo]: to
\* the browser FiefAuth.authCallback, which goes on to store them, or to the
\* caller of authRefreshToken
VerifyIDToken_ReturnsUnverified(p) ==
  /\ procs[p].op \in {"authCallback", "authRefreshToken"}
  /\ procs[p].pc = "jwks_ready"
  /\ UNCHANGED <<openIDConfiguration, jwks, encryptionKey, pendingAuthCallbacks,
                 storage, requests, userInfoCache, callVars, location>>
  /\ LET data == Get(procs[p].data)
     IN IF procs[p].op = "authCallback"
          THEN procs' = [procs EXCEPT ![p].pc = "store",
                                      ![p].claims = Some(Claims(data.id_token))]
          ELSE procs' = [procs EXCEPT ![p].pc = "done", ![p].result = "ok",
                                      ![p].claims = Some(Claims(data.id_token))]

VerifyIDToken(p) ==
  /\ procs[p].op \in {"authCallback", "authRefreshToken"}
  /\ procs[p].pc = "jwks_ready"
  /\ UNCHANGED <<openIDConfiguration, jwks, encryptionKey, pendingAuthCallbacks,
                 storage, requests, userInfoCache, callVars, location>>
  /\ LET data == Get(procs[p].data)
         r == decodeIDToken(data.id_token, ProviderKeys, procs[p].code,
                            data.access_token, encryptionKey)
     IN IF r.error # "none"
          THEN Throw(p, r.error)
        ELSE IF procs[p].op = "authCallback"
          THEN procs' = [procs EXCEPT ![p].pc = "store", ![p].claims = r.claims]
        ELSE procs' = [procs EXCEPT ![p].pc = "done", ![p].result = "ok",
                                    ![p].claims = r.claims]

\* FiefAuth.authCallback after client.authCallback resolved
StoreSession_TokenInfoOnly(p) ==
  /\ procs[p].pc = "store"
  /\ UNCHANGED <<openIDConfiguration, jwks, encryptionKey, requests, userInfoCache, callVars, location>>
  /\ pendingAuthCallbacks' = pendingAuthCallbacks \ procs[p].code
  /\ storage' = [storage EXCEPT !.tokenInfo = procs[p].data]
  /\ procs' = [procs EXCEPT ![p].pc = "done", ![p].result = "ok"]

StoreSession(p) ==
  /\ procs[p].pc = "store"
  /\ UNCHANGED <<openIDConfiguration, jwks, encryptionKey, requests, userInfoCache, callVars, location>>
  /\ pendingAuthCallbacks' = pendingAuthCallbacks \ procs[p].code
  /\ storage' = [storage EXCEPT !.tokenInfo = procs[p].data,
                                !.userinfo = procs[p].claims]
  /\ procs' = [procs EXCEPT ![p].pc = "done", ![p].result = "ok"]

\* the import of the encryption key started by the constructor completes
ImportKey ==
  /\ encryptionKey = "importing"
  /\ encryptionKey' = "imported"
  /\ UNCHANGED <<openIDConfiguration, jwks, pendingAuthCallbacks, storage,
                 requests, procs, userInfoCache, callVars, location>>

NoProbe == [phase |-> "none"]

\* no identity cache was given to the constructor
NoCache == [configured |-> FALSE, entries |-> [s \in {"U1", "U2"} |-> NULL]]

Init ==
  /\ openIDConfiguration = "undefined"
  /\ jwks = "undefined"
  /\ encryptionKey \in {"none", "importing"}
  /\ pendingAuthCallbacks = {}
  /\ storage \in [tokenInfo : {NULL}, userinfo : {NULL},
                  codeVerifier : {NULL, Some("VERIFIER")}]
  /\ requests = [config |-> 0, jwks |-> 0, token |-> [c \in Codes |-> 0]]
  /\ procs = [p \in Procs |-> IdleProc]
  /\ userInfoCache = NoCache
  /\ idt = NoProbe
  /\ vat = NoProbe
  /\ call = NoProbe
  /\ location = NULL

\* invocations are numbered in the order in which they are made
NextToStart(p) == \A q \in Procs : q < p => procs[q].pc # "idle"

Next ==
  \/ \E p \in Procs, search \in SearchParams :
       NextToStart(p) /\ authCallback(p, search)
  \/ \E p \in Procs, outcome \in NetOutcomes : ConfigResponse(p, outcome)
  \/ \E p \in Procs : ConfigReady(p)
  \/ \E p \in Procs, outcome \in NetOutcomes, c \in Codes :
       \E response \in TokenResponses(c) : TokenResponse(p, outcome, response)
  \/ \E p \in Procs, outcome \in NetOutcomes : JWKSResponse(p, outcome)
  \/ \E p \in Procs : VerifyIDToken(p)
  \/ \E p \in Procs : StoreSession(p)
  \/ ImportKey

Spec == Init /\ [][Next]_vars

----------------------------------------------------------------------------
(* Claims about the browser callback and the discovery cache *)

\* invocation p starts in this step as a callback carrying code c while
\* another callback for c has started its exchange and has not settled
StartsDuplicate(p, c) ==
  /\ procs[p].pc = "idle"
  /\ procs'[p].pc # "idle"
  /\ procs'[p].op = "authCallback"
  /\ procs'[p].code = Some(c)
  /\ \E q \in Procs \ {p} :
       procs[q].op = "authCallback" /\ InFlight(q) /\ procs[q].code = Some(c)

\* C1: an authCallback invoked with code C while an earlier authCallback for C
\* on the same instance has not settled sends no request (the client's
\* authCallback is not entered: the invocation is settled at once) and leaves
\* token info, user info and code verifier in storage as they were.
C1_DuplicateCallbackDoesNothing ==
  [][\A p \in Procs, c \in Codes :
       StartsDuplicate(p, c) =>
         /\ requests' = requests
         /\ storage' = storage
         /\ procs'[p].pc = "done"]_vars

\* a callback returned without doing anything while the exchange of the same
\* code by another invocation was still in flight
C1_Witness ==
  \E p, q \in Procs :
    /\ p # q
    /\ procs[p].pc = "done" /\ procs[p].result = "returned"
    /\ InFlight(q) /\ procs[q].code = procs[p].code
    /\ requests.token[Get(procs[p].code)] = 1

\* the ways the exchange of a callback fails after it has started
ExchangeFailures == {"FiefRequestError", "FiefIdTokenInvalid", "AbortError", "SyntaxError"}

\* C2: once the exchange of a callback for code C has settled with a failure
\* (request error, ID token invalid, cancelled or timed out), C is no longer
\* in the pending set, so that a later callback with C exchanges it again.
C2_FailedExchangeLeavesPendingSet ==
  \A p \in Procs :
    ( /\ procs[p].op = "authCallback"
      /\ procs[p].pc = "done"
      /\ procs[p].result \in ExchangeFailures
      /\ ~ \E q \in Procs : InFlight(q) /\ procs[q].code = procs[p].code )
    => Get(procs[p].code) \notin pendingAuthCallbacks

\* C3, as stated: at most one GET of the configuration document and at most
\* one GET of the key set are ever issued by one client instance.
C3_AtMostOneFetchEver ==
  requests.config <= 1 /\ requests.jwks <= 1

\* invocation p sends the GET of jwks_uri in this step
SendsJWKSRequest(p) ==
  procs[p].pc = "cfg_ready" /\ procs'[p].pc = "jwks_wait"

\* invocation p sends the GET of the configuration document in this step
SendsConfigRequest(p) ==
  procs[p].pc # "cfg_wait" /\ procs'[p].pc = "cfg_wait"

\* C3, amended: once a value is stored in the configuration cache (the
\* promise of the body of a 2xx answer, whether or not that body is JSON) no
\* GET of the configuration document is issued any more, and an operation
\* that starts when the key set is cached never issues a GET of the key set.
\* A GET of the configuration document is issued only by an operation that
\* finds the cache empty, and every GET is counted: operations that find a
\* cache empty each issue their own.  A request that ends its operation with
\* an error (an error status, a rejected fetch, a key set that is not JSON)
\* stores nothing.
C3_NoFetchOnceCached ==
  [][ /\ (openIDConfiguration # "undefined" => requests'.config = requests.config)
      /\ \A p \in Procs : procs[p].jwksAtStart => ~SendsJWKSRequest(p)
      /\ \A p \in Procs :
           SendsConfigRequest(p) =>
             /\ openIDConfiguration = "undefined"
             /\ requests'.config = requests.config + 1
      /\ \A p \in Procs :
           SendsJWKSRequest(p) => requests'.jwks = requests.jwks + 1
      /\ \A p \in Procs :
           (procs[p].pc = "cfg_wait" /\ procs'[p].pc = "done") =>
             openIDConfiguration' = openIDConfiguration
      /\ \A p \in Procs :
           (procs[p].pc = "jwks_wait" /\ procs'[p].pc = "done") => jwks' = jwks ]_vars

\* an exchange that started with the key set cached has verified its ID token
\* and completed, after exactly one GET of each document
C3_Witness ==
  \E p \in Procs :
    /\ procs[p].jwksAtStart
    /\ procs[p].pc = "done" /\ procs[p].result = "ok"
    /\ requests.config = 1 /\ requests.jwks = 1

----------------------------------------------------------------------------
(* ID-token verification on its own: one evaluation of decodeIDToken for    *)
(* every token, code, access token and encryption key of the value sets     *)

NoResult == [error |-> "pending", claims |-> NULL]

\* the code of the exchange (none in a refresh) and the access token of the
\* token response
CodeInputs == {NULL, Some(""), Some("CODE1"), Some("CODE2")}
AccessTokenInputs == {NULL, Some(""), Some("AT1"), Some("AT2")}

InitIdToken ==
  /\ openIDConfiguration = "ok"
  /\ jwks = "cached"
  /\ encryptionKey \in {"none", "imported"}
  /\ pendingAuthCallbacks = {}
  /\ storage = [tokenInfo |-> NULL, userinfo |-> NULL, codeVerifier |-> NULL]
  /\ requests = [config |-> 1, jwks |-> 1, token |-> [c \in Codes |-> 0]]
  /\ procs = [p \in Procs |-> IdleProc]
  /\ userInfoCache = NoCache
  /\ vat = NoProbe
  /\ call = NoProbe
  /\ idt \in [phase : {"input"}, idToken : IdTokens, code : CodeInputs,
              accessToken : AccessTokenInputs, result : {NoResult}]
  /\ location = NULL

\* Fief.authCallback / Fief.authRefreshToken hand the ID token of the token
\* response to decodeIDToken
DecodeIDToken ==
  /\ idt.phase = "input"
  /\ idt' = [idt EXCEPT !.phase = "done",
               !.result = decodeIDToken(idt.idToken, ProviderKeys, idt.code,
                                        idt.accessToken, encryptionKey)]
  /\ UNCHANGED <<openIDConfiguration, jwks, encryptionKey, pendingAuthCallbacks,
                 storage, requests, procs, userInfoCache, vat, call, location>>

NextIdToken == DecodeIDToken

SpecIdToken == InitIdToken /\ [][NextIdToken]_vars

Accepted == idt.phase = "done" /\ idt.result.error = "none"
Rejected == idt.phase = "done" /\ idt.result.error = "FiefIdTokenInvalid"

\* the token decrypts (when a key is set), is signed by a key of the cached
\* key set and has not expired
SignedAndUnexpired ==
  /\ signedToken(idt.idToken, encryptionKey) = "jws"
  /\ idt.idToken.sig \in ProviderKeys
  /\ idt.idToken.exp = "future"

\* C4: an ID token is accepted only if, besides signature and expiry, its
\* issuer is the configured provider and its audience is this client.
C4_IssuerAndAudienceChecked ==
  Accepted => idt.idToken.iss = BaseURL /\ idt.idToken.aud = ClientId

\* every hash claim the token carries equals the validation hash of the
\* corresponding value of the exchange
HashClaimsMatch ==
  /\ idt.idToken.c_hash # NULL =>
       idt.code # NULL /\ Get(idt.idToken.c_hash) = getValidationHash(Get(idt.code))
  /\ idt.idToken.at_hash # NULL =>
       /\ idt.accessToken # NULL
       /\ Get(idt.idToken.at_hash) = getValidationHash(Get(idt.accessToken))

CodeExchange == idt.phase = "done" /\ idt.code # NULL /\ idt.accessToken # NULL

\* C5, as stated: in a code exchange (C, T) a token carrying c_hash and/or
\* at_hash is accepted only if every such claim equals the hash of C
\* resp. T; a signed, unexpired token whose claims are hash(C) and hash(T) is
\* accepted; a mismatch fails with FiefIdTokenInvalid.
C5_HashClaimBinding ==
  CodeExchange =>
    /\ Accepted => HashClaimsMatch
    /\ (SignedAndUnexpired /\ HashClaimsMatch) => Accepted
    /\ ~Accepted => Rejected

\* C5, amended: the same for every non-empty code and access token.  With an
\* empty code (or access token) a token carrying c_hash (or at_hash) is
\* rejected even when the claim is the hash of the empty string.
NonEmptyExchange ==
  CodeExchange /\ Get(idt.code) # "" /\ Get(idt.accessToken) # ""

C5_HashClaimBindingNonEmpty ==
  /\ NonEmptyExchange =>
       /\ Accepted => HashClaimsMatch
       /\ (SignedAndUnexpired /\ HashClaimsMatch) => Accepted
       /\ ~Accepted => Rejected
  /\ CodeExchange =>
       /\ Accepted => HashClaimsMatch
       /\ (idt.idToken.c_hash # NULL /\ Get(idt.code) = "") => Rejected
       /\ (idt.idToken.at_hash # NULL /\ Get(idt.accessToken) = "") => Rejected

\* a token carrying both hash claims of its exchange (CODE1, AT1) was accepted
C5_Witness ==
  /\ Accepted
  /\ idt.code = Some("CODE1") /\ idt.accessToken = Some("AT1")
  /\ idt.idToken.c_hash = Some(getValidationHash("CODE1"))
  /\ idt.idToken.at_hash = Some(getValidationHash("AT1"))

----------------------------------------------------------------------------
(* Access tokens and their validation *)

\* longest scope claim (in characters) of the tokens examined
MaxScopeLen == 3

\* A scope claim is a string: a sequence of characters, of which the space
\* separates scope names.  A scope name is a sequence of characters too.
ScopeChars == {"o", "r", " "}

ScopeStrings == UNION {[1..n -> ScopeChars] : n \in 0..MaxScopeLen}

\* String.prototype.split(' '): the pieces between the spaces, empty pieces
\* included, so that the empty string splits into one empty piece
RECURSIVE splitFrom(_, _, _, _)
splitFrom(str, i, piece, pieces) ==
  IF i > Len(str) THEN Append(pieces, piece)
  ELSE IF str[i] = " " THEN splitFrom(str, i + 1, <<>>, Append(pieces, piece))
  ELSE splitFrom(str, i + 1, Append(piece, str[i]), pieces)

split_SkipEmpty(str) ==
  SelectSeq(splitFrom(str, 1, <<>>, <<>>), LAMBDA piece : piece # <<>>)

split(str) == splitFrom(str, 1, <<>>, <<>>)

\* FiefACR and ACR_LEVELS_ORDER
LEVEL_ZERO == "0"
LEVEL_ONE == "1"
FiefACR == {LEVEL_ZERO, LEVEL_ONE}
ACR_LEVELS_ORDER == <<LEVEL_ZERO, LEVEL_ONE>>

\* Array.prototype.findIndex: the 0-based position of the first element
\* equal to x, or -1
findIndex(seq, x) ==
  IF \E i \in 1..Len(seq) : seq[i] = x
    THEN (CHOOSE i \in 1..Len(seq) : seq[i] = x /\ \A j \in 1..(i - 1) : seq[j] # x) - 1
    ELSE -1

compareACR_Reversed(a, b) ==
  findIndex(ACR_LEVELS_ORDER, b) - findIndex(ACR_LEVELS_ORDER, a)

compareACR(a, b) == findIndex(ACR_LEVELS_ORDER, a) - findIndex(ACR_LEVELS_ORDER, b)

\* Array.prototype.some((x) => x === v)
some(seq, v) == \E i \in 1..Len(seq) : seq[i] = v

\* the first element of `required` (a nullable list) that `have` lacks
Lacks(have, required) ==
  required # NULL /\ \E i \in 1..Len(Get(required)) : ~some(have, Get(required)[i])

NoInfo == NULL

TokenError(e) == [error |-> e, info |-> NoInfo]

\* the requirement checks of validateAccessToken on the verified claims
checkClaims_ScopeOnly(token, requiredScopes, requiredACR, requiredPermissions) ==
  IF token.scope = NULL THEN TokenError("FiefAccessTokenInvalid")
  ELSE IF Lacks(split(Get(token.scope)), requiredScopes)
    THEN TokenError("FiefAccessTokenMissingScope")
  ELSE IF token.acr = NULL \/ Get(token.acr) \notin FiefACR
    THEN TokenError("FiefAccessTokenInvalid")
  ELSE IF token.permissions = NULL THEN TokenError("FiefAccessTokenInvalid")
  ELSE [error |-> "none",
        info |-> Some([id |-> token.sub, scope |-> split(Get(token.scope)),
                       acr |-> Get(token.acr), permissions |-> Get(token.permissions),
                       access_token |-> token])]

checkClaims_AbsentPermissionsEmpty(token, requiredScopes, requiredACR, requiredPermissions) ==
  LET permissions == IF token.permissions = NULL THEN <<>> ELSE Get(token.permissions) IN
  IF token.scope = NULL THEN TokenError("FiefAccessTokenInvalid")
  ELSE IF Lacks(split(Get(token.scope)), requiredScopes)
    THEN TokenError("FiefAccessTokenMissingScope")
  ELSE IF token.acr = NULL \/ Get(token.acr) \notin FiefACR
    THEN TokenError("FiefAccessTokenInvalid")
  ELSE IF /\ ~Falsy(requiredACR)
          /\ compareACR(Get(token.acr), Get(requiredACR)) < 0
    THEN TokenError("FiefAccessTokenACRTooLow")
  ELSE IF Lacks(permissions, requiredPermissions)
    THEN TokenError("FiefAccessTokenMissingPermission")
  ELSE [error |-> "none",
        info |-> Some([id |-> token.sub, scope |-> split(Get(token.scope)),
                       acr |-> Get(token.acr), permissions |-> permissions,
                       access_token |-> token])]

checkClaims(token, requiredScopes, requiredACR, requiredPermissions) ==
  IF token.scope = NULL THEN TokenError("FiefAccessTokenInvalid")
  ELSE IF Lacks(split(Get(token.scope)), requiredScopes)
    THEN TokenError("FiefAccessTokenMissingScope")
  ELSE IF token.acr = NULL \/ Get(token.acr) \notin FiefACR
    THEN TokenError("FiefAccessTokenInvalid")
  ELSE IF /\ ~Falsy(requiredACR)
          /\ compareACR(Get(token.acr), Get(requiredACR)) < 0
    THEN TokenError("FiefAccessTokenACRTooLow")
  ELSE IF token.permissions = NULL THEN TokenError("FiefAccessTokenInvalid")
  ELSE IF Lacks(Get(token.permissions), requiredPermissions)
    THEN TokenError("FiefAccessTokenMissingPermission")
  ELSE [error |-> "none",
        info |-> Some([id |-> token.sub, scope |-> split(Get(token.scope)),
                       acr |-> Get(token.acr), permissions |-> Get(token.permissions),
                       access_token |-> token])]

\* Fief.validateAccessToken(accessToken, requiredScopes, requiredACR,
\* requiredPermissions) once the key set is there
validateAccessToken_ExpiredAsInvalid(token, keys, requiredScopes, requiredACR, requiredPermissions) ==
  IF jwtVerify("jws", token, keys) # "ok" THEN TokenError("FiefAccessTokenInvalid")
  ELSE checkClaims(token, requiredScopes, requiredACR, requiredPermissions)

validateAccessToken(token, keys, requiredScopes, requiredACR, requiredPermissions) ==
  LET verdict == jwtVerify("jws", token, keys) IN
  IF verdict = "JWTExpired" THEN TokenError("FiefAccessTokenExpired")
  ELSE IF verdict # "ok" THEN TokenError("FiefAccessTokenInvalid")
  ELSE checkClaims(token, requiredScopes, requiredACR, requiredPermissions)

----------------------------------------------------------------------------
(* Access-token validation on its own: one evaluation of                    *)
(* validateAccessToken for every token and requirement of the value sets    *)

PermissionClaims ==
  {NULL, Some(<<>>), Some(<<"castles:read">>),
   Some(<<"castles:read", "castles:create">>)}

\* the acr claim: absent, a defined level, or a value that is no level
ACRClaims == {NULL, Some(LEVEL_ZERO), Some(LEVEL_ONE), Some("2")}

AccessTokens ==
  [sig : {"provider-key", "other-key"}, exp : {"future", "past"},
   scope : {NULL} \cup {Some(str) : str \in ScopeStrings},
   acr : ACRClaims, permissions : PermissionClaims, sub : {"U1"}]

RequiredScopes == {NULL, Some(<< <<"o">> >>), Some(<< <<"r">> >>), Some(<< <<"o">>, <<"r">> >>)}
RequiredACRs == {NULL, Some(LEVEL_ZERO), Some(LEVEL_ONE)}
RequiredPermissions == {NULL, Some(<<"castles:read">>), Some(<<"castles:create">>)}

InitValidate ==
  /\ openIDConfiguration = "ok"
  /\ jwks = "cached"
  /\ encryptionKey = "none"
  /\ pendingAuthCallbacks = {}
  /\ storage = [tokenInfo |-> NULL, userinfo |-> NULL, codeVerifier |-> NULL]
  /\ requests = [config |-> 1, jwks |-> 1, token |-> [c \in Codes |-> 0]]
  /\ procs = [p \in Procs |-> IdleProc]
  /\ userInfoCache = NoCache
  /\ idt = NoProbe
  /\ call = NoProbe
  /\ vat \in [phase : {"input"}, token : AccessTokens,
              requiredScopes : RequiredScopes, requiredACR : RequiredACRs,
              requiredPermissions : RequiredPermissions,
              result : {TokenError("pending")}]
  /\ location = NULL

ValidateAccessToken ==
  /\ vat.phase = "input"
  /\ vat' = [vat EXCEPT !.phase = "done",
               !.result = validateAccessToken(vat.token, ProviderKeys,
                            vat.requiredScopes, vat.requiredACR,
                            vat.requiredPermissions)]
  /\ UNCHANGED <<openIDConfiguration, jwks, encryptionKey, pendingAuthCallbacks,
                 storage, requests, procs, userInfoCache, idt, call, location>>

NextValidate == ValidateAccessToken

SpecValidate == InitValidate /\ [][NextValidate]_vars

\* the scope string holds `name` as one of its space-separated names
HasScopeName(str, name) ==
  \E i \in 1..(Len(str) + 1) :
    LET j == i + Len(name) - 1 IN
    /\ j <= Len(str)
    /\ SubSeq(str, i, j) = name
    /\ (i = 1 \/ str[i - 1] = " ")
    /\ (j = Len(str) \/ str[j + 1] = " ")

\* the validated token is correctly signed and unexpired and carries the
\* scope, permissions and acr claims
ValidatedWithClaims ==
  /\ vat.phase = "done"
  /\ vat.token.sig \in ProviderKeys /\ vat.token.exp = "future"
  /\ vat.token.scope # NULL /\ vat.token.permissions # NULL /\ vat.token.acr # NULL

LacksRequiredScope ==
  /\ vat.requiredScopes # NULL
  /\ \E i \in 1..Len(Get(vat.requiredScopes)) :
       ~HasScopeName(Get(vat.token.scope), Get(vat.requiredScopes)[i])

LacksRequiredPermission ==
  /\ vat.requiredPermissions # NULL
  /\ \E i \in 1..Len(Get(vat.requiredPermissions)) :
       \A k \in 1..Len(Get(vat.token.permissions)) :
         Get(vat.token.permissions)[k] # Get(vat.requiredPermissions)[i]

\* the level of a defined ACR
Level(acr) == IF acr = LEVEL_ZERO THEN 0 ELSE 1

ACRBelowRequired ==
  /\ vat.requiredACR # NULL
  /\ Get(vat.token.acr) \in FiefACR
  /\ Level(Get(vat.token.acr)) < Level(Get(vat.requiredACR))

\* the error is the specific error of a requirement that is unsatisfied
SpecificErrorOfUnsatisfied ==
  \/ vat.result.error = "FiefAccessTokenMissingScope" /\ LacksRequiredScope
  \/ vat.result.error = "FiefAccessTokenMissingPermission" /\ LacksRequiredPermission
  \/ vat.result.error = "FiefAccessTokenACRTooLow" /\ ACRBelowRequired

\* C10, as stated: for every correctly signed, unexpired token carrying
\* scope, permissions and acr, an unsatisfied scope, permission or ACR
\* requirement yields the specific error of an unsatisfied requirement, never
\* the generic FiefAccessTokenInvalid.
C10_UnsatisfiedYieldsSpecificError ==
  ( /\ ValidatedWithClaims
    /\ (LacksRequiredScope \/ LacksRequiredPermission \/ ACRBelowRequired) )
  => SpecificErrorOfUnsatisfied

\* C10, amended: the same for tokens whose acr claim is one of the defined
\* levels, the error being that of the first unsatisfied requirement in the
\* order scope, ACR, permission.  (A token whose acr is no defined level is
\* FiefAccessTokenInvalid as soon as its scopes satisfy the requirement.)
C10_FirstUnsatisfiedYieldsSpecificError ==
  ValidatedWithClaims =>
    /\ LacksRequiredScope => vat.result.error = "FiefAccessTokenMissingScope"
    /\ Get(vat.token.acr) \in FiefACR =>
         /\ (~LacksRequiredScope /\ ACRBelowRequired) =>
              vat.result.error = "FiefAccessTokenACRTooLow"
         /\ (~LacksRequiredScope /\ ~ACRBelowRequired /\ LacksRequiredPermission) =>
              vat.result.error = "FiefAccessTokenMissingPermission"
    /\ (Get(vat.token.acr) \notin FiefACR /\ ~LacksRequiredScope) =>
         vat.result.error = "FiefAccessTokenInvalid"

\* a token with the required scope and ACR that lacks the required permission
\* was refused with the missing-permission error
C10_Witness ==
  /\ ValidatedWithClaims
  /\ vat.requiredScopes # NULL /\ ~LacksRequiredScope
  /\ vat.requiredACR = Some(LEVEL_ONE) /\ ~ACRBelowRequired
  /\ LacksRequiredPermission
  /\ vat.result.error = "FiefAccessTokenMissingPermission"

----------------------------------------------------------------------------
(* Server FiefAuth.authenticate *)

\* JavaScript truthiness of an optional boolean parameter
Truthy(o) == o = Some(TRUE)

GoodToken(sub) ==
  [sig |-> "provider-key", exp |-> "future", scope |-> Some(<<"o">>),
   acr |-> Some(LEVEL_ZERO), permissions |-> Some(<<"castles:read">>), sub |-> sub]

\* the tokens the requests carry: a good one for either user, an expired one
\* and one signed with a key that is not the provider's
RequestTokens ==
  {GoodToken("U1"), GoodToken("U2"), [GoodToken("U1") EXCEPT !.exp = "past"],
   [GoodToken("U1") EXCEPT !.sig = "other-key"]}

\* the handlers without a requirement, refreshing the identity or not
NoRequirement ==
  {[scope |-> NULL, acr |-> NULL, permissions |-> NULL, refresh |-> r] :
     r \in {NULL, Some(TRUE)}}

\* the handlers requiring a scope, an ACR or a permission, none of which
\* GoodToken satisfies
Requirements ==
  {[scope |-> Some(<< <<"r">> >>), acr |-> NULL, permissions |-> NULL, refresh |-> NULL],
   [scope |-> NULL, acr |-> Some(LEVEL_ONE), permissions |-> NULL, refresh |-> NULL],
   [scope |-> NULL, acr |-> NULL, permissions |-> Some(<<"castles:create">>),
    refresh |-> NULL]}

AuthenticateRequestParameters ==
  {[optional |-> o, scope |-> q.scope, acr |-> q.acr,
    permissions |-> q.permissions, refresh |-> q.refresh] :
     o \in {NULL, Some(TRUE)}, q \in NoRequirement \cup Requirements}

\* what the userinfo endpoint may answer for a user at different times
Emails == {"a@fief", "b@fief"}
UserInfos(sub) == {[sub |-> sub, email |-> e] : e \in Emails}

\* the branch of authenticate for a request without a token
authenticateNoToken_OptionalInverted(optional) ==
  IF optional = Some(TRUE) THEN "FiefAuthUnauthorized" ELSE "ok"

authenticateNoToken(optional) ==
  IF optional # Some(TRUE) THEN "FiefAuthUnauthorized" ELSE "ok"

\* the catch clause of authenticate: what leaves the handler for error err
authenticateCatch(optional, err) ==
  IF /\ ~Truthy(optional)
     /\ err \in {"FiefAccessTokenInvalid", "FiefAccessTokenExpired"}
    THEN "FiefAuthUnauthorized"
  ELSE IF err \in {"FiefAccessTokenMissingScope", "FiefAccessTokenMissingPermission"}
    THEN "FiefAuthForbidden"
  ELSE err

\* the handler returned by authenticate(parameters) is called with a request
\* from which the token getter extracts `token` (or nothing); with a token it
\* enters validateAccessToken, which starts by getJWKS
Authenticate(p, token) ==
  /\ procs[p].pc = "idle"
  /\ procs[p].parameters # NULL
  /\ UNCHANGED <<openIDConfiguration, jwks, encryptionKey, pendingAuthCallbacks,
                 storage, userInfoCache, callVars, location>>
  /\ LET me == [procs[p] EXCEPT !.op = "authenticate", !.token = token]
         optional == Get(procs[p].parameters).optional
     IN IF token = NULL
          THEN /\ procs' = [procs EXCEPT ![p] =
                    [me EXCEPT !.pc = "done", !.result = authenticateNoToken(optional)]]
               /\ UNCHANGED requests
          ELSE LET next == getJWKS([me EXCEPT !.calls.validateAccessToken = @ + 1])
               IN /\ procs' = [procs EXCEPT ![p] = next]
                  /\ requests' = Sent(me, next)

\* validateAccessToken goes on with the key set; authenticate's catch clause
\* maps its error, and without an identity cache the handler returns
\* an array where the client expects an ACR: no element of ACR_LEVELS_ORDER
\* is strictly equal to it, whatever it holds, and it is truthy even when
\* empty.  It is represented by a string that is no ACR level.
ArrayAsACR == "[array]"

\* this.client.validateAccessToken(token, scope, permissions), the call of
\* the handler: three positional arguments for the parameters (accessToken,
\* requiredScopes, requiredACR, requiredPermissions).  The permissions of
\* the handler arrive as requiredACR, and requiredPermissions is undefined.
validateAccessTokenOfHandler(token, prm) ==
  validateAccessToken(token, ProviderKeys, prm.scope,
                      IF prm.permissions = NULL THEN NULL ELSE Some(ArrayAsACR),
                      NULL)

Validate(p) ==
  /\ procs[p].op = "authenticate"
  /\ procs[p].pc = "jwks_ready"
  /\ UNCHANGED <<openIDConfiguration, jwks, encryptionKey, pendingAuthCallbacks,
                 storage, requests, userInfoCache, callVars, location>>
  /\ LET prm == Get(procs[p].parameters)
         r == validateAccessTokenOfHandler(Get(procs[p].token), prm)
     IN IF r.error # "none"
          THEN Throw(p, authenticateCatch(prm.optional, r.error))
        ELSE IF userInfoCache.configured
          THEN procs' = [procs EXCEPT ![p].pc = "cache_get",
                                      ![p].accessTokenInfo = r.info]
        ELSE procs' = [procs EXCEPT ![p].pc = "done", ![p].result = "ok",
                                    ![p].accessTokenInfo = r.info]

\* userInfoCache.get(accessTokenInfo.id)
CacheGet(p) ==
  /\ procs[p].pc = "cache_get"
  /\ UNCHANGED <<openIDConfiguration, jwks, encryptionKey, pendingAuthCallbacks,
                 storage, requests, userInfoCache, callVars, location>>
  /\ procs' = [procs EXCEPT
       ![p].pc = "cache_got",
       ![p].calls.get = @ + 1,
       ![p].user = userInfoCache.entries[Get(procs[p].accessTokenInfo).id]]

\* with the answer of the cache: return it, or call client.userinfo, which
\* starts by getOpenIDConfiguration
FetchOrReturn_IgnoreRefresh(p) ==
  /\ procs[p].pc = "cache_got"
  /\ UNCHANGED <<openIDConfiguration, jwks, encryptionKey, pendingAuthCallbacks,
                 storage, userInfoCache, callVars, location>>
  /\ IF procs[p].user = NULL
       THEN LET next == getOpenIDConfiguration(
                          [procs[p] EXCEPT !.calls.userinfo = @ + 1], "userinfo")
            IN /\ procs' = [procs EXCEPT ![p] = next]
               /\ requests' = Sent(procs[p], next)
       ELSE /\ procs' = [procs EXCEPT ![p].pc = "done", ![p].result = "ok"]
            /\ UNCHANGED requests

FetchOrReturn(p) ==
  /\ procs[p].pc = "cache_got"
  /\ UNCHANGED <<openIDConfiguration, jwks, encryptionKey, pendingAuthCallbacks,
                 storage, userInfoCache, callVars, location>>
  /\ IF procs[p].user = NULL \/ Get(procs[p].parameters).refresh = Some(TRUE)
       THEN LET next == getOpenIDConfiguration(
                          [procs[p] EXCEPT !.calls.userinfo = @ + 1], "userinfo")
            IN /\ procs' = [procs EXCEPT ![p] = next]
               /\ requests' = Sent(procs[p], next)
       ELSE /\ procs' = [procs EXCEPT ![p].pc = "done", ![p].result = "ok"]
            /\ UNCHANGED requests

\* the answer of the userinfo endpoint arrives
UserinfoResponse(p, outcome, data) ==
  /\ procs[p].pc = "userinfo_wait"
  /\ data \in UserInfos(Get(procs[p].token).sub)
  /\ UNCHANGED <<openIDConfiguration, jwks, encryptionKey, pendingAuthCallbacks,
                 storage, requests, userInfoCache, callVars, location>>
  /\ IF outcome = "ok"
       THEN procs' = [procs EXCEPT ![p].pc = "cache_set", ![p].user = Some(data)]
       ELSE Throw(p, authenticateCatch(Get(procs[p].parameters).optional,
                                       NetError(outcome)))

\* userInfoCache.set(accessTokenInfo.id, user), which the handler awaits
CacheSet_NoWrite(p) ==
  /\ procs[p].pc = "cache_set"
  /\ UNCHANGED <<openIDConfiguration, jwks, encryptionKey, pendingAuthCallbacks,
                 storage, requests, userInfoCache, callVars, location>>
  /\ procs' = [procs EXCEPT ![p].pc = "cache_stored", ![p].calls.set = @ + 1]

CacheSet(p) ==
  /\ procs[p].pc = "cache_set"
  /\ UNCHANGED <<openIDConfiguration, jwks, encryptionKey, pendingAuthCallbacks,
                 storage, requests, callVars, location>>
  /\ userInfoCache' = [userInfoCache EXCEPT
       !.entries[Get(procs[p].accessTokenInfo).id] = procs[p].user]
  /\ procs' = [procs EXCEPT ![p].pc = "cache_stored", ![p].calls.set = @ + 1]

\* the promise of userInfoCache.set has resolved: the handler returns
\* { accessTokenInfo, user }
ReturnResult(p) ==
  /\ procs[p].pc = "cache_stored"
  /\ UNCHANGED <<openIDConfiguration, jwks, encryptionKey, pendingAuthCallbacks,
                 storage, requests, userInfoCache, callVars, location>>
  /\ procs' = [procs EXCEPT ![p].pc = "done", ![p].result = "ok"]

\* a FiefAuth made with a client and, or not, an identity cache, and one
\* handler made by authenticate(parameters)
InitAuth ==
  /\ openIDConfiguration = "undefined"
  /\ jwks = "undefined"
  /\ encryptionKey = "none"
  /\ pendingAuthCallbacks = {}
  /\ storage = [tokenInfo |-> NULL, userinfo |-> NULL, codeVerifier |-> NULL]
  /\ requests = [config |-> 0, jwks |-> 0, token |-> [c \in Codes |-> 0]]
  /\ \E parameters \in AuthenticateRequestParameters :
       procs = [p \in Procs |-> [IdleProc EXCEPT !.parameters = Some(parameters)]]
  /\ userInfoCache \in [configured : BOOLEAN, entries : {NoCache.entries}]
  /\ idt = NoProbe
  /\ vat = NoProbe
  /\ call = NoProbe
  /\ location = NULL

\* how the provider answers the server: with a 2xx answer or with an error
\* status
ServerNetOutcomes == {"ok", "non2xx"}

NextAuth ==
  \/ \E p \in Procs, token \in {NULL} \cup {Some(t) : t \in RequestTokens} :
       NextToStart(p) /\ Authenticate(p, token)
  \/ \E p \in Procs, outcome \in ServerNetOutcomes : ConfigResponse(p, outcome)
  \/ \E p \in Procs : ConfigReady(p)
  \/ \E p \in Procs, outcome \in ServerNetOutcomes : JWKSResponse(p, outcome)
  \/ \E p \in Procs : Validate(p)
  \/ \E p \in Procs : CacheGet(p)
  \/ \E p \in Procs : FetchOrReturn(p)
  \/ \E p \in Procs, outcome \in ServerNetOutcomes, sub \in {"U1", "U2"} :
       \E data \in UserInfos(sub) : UserinfoResponse(p, outcome, data)
  \/ \E p \in Procs : CacheSet(p)
  \/ \E p \in Procs : ReturnResult(p)

SpecAuth == InitAuth /\ [][NextAuth]_vars

----------------------------------------------------------------------------
(* Claims about the server authenticate handler *)

\* the parameters of the handler and the request of invocation p
Parameters(p) == Get(procs[p].parameters)
OptionalSet(p) == Parameters(p).optional = Some(TRUE)
RefreshSet(p) == Parameters(p).refresh = Some(TRUE)

\* invocation p is a request with a token whose handling ended and was not
\* cut short by a failed provider request
Handled(p) ==
  /\ procs[p].op = "authenticate"
  /\ procs[p].pc = "done"
  /\ procs[p].token # NULL
  /\ procs[p].result \notin {NetError(o) : o \in NetOutcomes \ {"ok"}}

\* the handler returned the null result
NullResult(p) ==
  /\ procs[p].result = "ok"
  /\ procs[p].accessTokenInfo = NULL
  /\ procs[p].user = NULL

BadlySignedOrExpired(t) == t.sig \notin ProviderKeys \/ t.exp = "past"

\* token t falls short of a requirement of parameters prm
FallsShort(t, prm) ==
  \/ /\ prm.scope # NULL
     /\ \E i \in 1..Len(Get(prm.scope)) :
          ~HasScopeName(Get(t.scope), Get(prm.scope)[i])
  \/ /\ prm.permissions # NULL
     /\ \E i \in 1..Len(Get(prm.permissions)) :
          \A k \in 1..Len(Get(t.permissions)) :
            Get(t.permissions)[k] # Get(prm.permissions)[i]
  \/ /\ prm.acr # NULL
     /\ Level(Get(t.acr)) < Level(Get(prm.acr))

\* C6: a request whose token validateAccessToken rejects as invalid or as
\* expired ends with the unauthorized error when optional is not set, and
\* with the null result {accessTokenInfo: null, user: null}, nothing raised,
\* when optional is set.
C6_RejectedTokenUnauthorizedOrNull ==
  \A p \in Procs :
    (Handled(p) /\ BadlySignedOrExpired(Get(procs[p].token))) =>
      IF OptionalSet(p) THEN NullResult(p)
      ELSE procs[p].result = "FiefAuthUnauthorized"

\* C7: a request whose token is valid and unexpired but lacks a required
\* scope, lacks a required permission or has an ACR below the required one
\* ends with the forbidden error.
C7_UnsatisfiedRequirementForbidden ==
  \A p \in Procs :
    ( /\ Handled(p)
      /\ ~BadlySignedOrExpired(Get(procs[p].token))
      /\ FallsShort(Get(procs[p].token), Parameters(p)) )
    => procs[p].result = "FiefAuthForbidden"

\* invocation p is called in this step with a request without a token
StartsWithoutToken(p) ==
  /\ procs[p].pc = "idle"
  /\ procs'[p].pc # "idle"
  /\ procs'[p].op = "authenticate"
  /\ procs'[p].token = NULL

\* C8: a request from which the token getter extracts no token ends at once,
\* with the unauthorized error if optional is not set and with the null
\* result if it is; validateAccessToken, the identity cache and the userinfo
\* endpoint are not called, and no request is sent.
C8_NoTokenUnauthorizedOrNull ==
  [][\A p \in Procs :
       StartsWithoutToken(p) =>
         /\ procs'[p].pc = "done"
         /\ procs'[p].accessTokenInfo = NULL /\ procs'[p].user = NULL
         /\ procs'[p].result = IF OptionalSet(p) THEN "ok" ELSE "FiefAuthUnauthorized"
         /\ procs'[p].calls = IdleProc.calls
         /\ requests' = requests
         /\ userInfoCache' = userInfoCache]_vars

\* a request without a token got the null result from an optional handler
C8_Witness ==
  \E p \in Procs :
    /\ procs[p].op = "authenticate" /\ procs[p].pc = "done"
    /\ procs[p].token = NULL
    /\ OptionalSet(p)
    /\ NullResult(p)
    /\ procs[p].calls.validateAccessToken = 0

\* the subject id of the token of invocation p
Subject(p) == Get(procs[p].token).sub

\* C9: with an identity cache, after a successful validation: the cache is
\* asked for the identity under the token's subject id; if it holds one and
\* refresh is not set, that identity is returned and userinfo is not called;
\* otherwise userinfo is called, once, and the identity it answers is
\* returned and written to the cache under the subject id.  An entry, once
\* written, stays, so that later requests for the subject find it.
C9_CacheThenUserinfo ==
  [][\A p \in Procs :
       /\ (procs[p].pc = "cache_get" /\ procs'[p].pc # "cache_get") =>
            /\ procs'[p].user = userInfoCache.entries[Subject(p)]
            /\ procs'[p].calls.userinfo = 0
       /\ (procs[p].pc = "cache_got" /\ procs'[p].pc # "cache_got") =>
            IF procs[p].user # NULL /\ ~RefreshSet(p)
              THEN /\ procs'[p].pc = "done" /\ procs'[p].result = "ok"
                   /\ procs'[p].user = procs[p].user
                   /\ procs'[p].accessTokenInfo # NULL
                   /\ procs'[p].calls.userinfo = 0
                   /\ userInfoCache' = userInfoCache
              ELSE /\ procs'[p].pc \in {"cfg_wait", "cfg_ready"}
                   /\ procs'[p].after = "userinfo"
                   /\ procs'[p].calls.userinfo = 1
       /\ (procs[p].pc = "userinfo_wait" /\ procs'[p].pc = "cache_set") =>
            /\ procs'[p].user \in {Some(u) : u \in UserInfos(Subject(p))}
            /\ procs'[p].calls.userinfo = 1
       /\ (procs[p].pc = "cache_set" /\ procs'[p].pc # "cache_set") =>
            /\ procs'[p].pc = "cache_stored"
            /\ procs'[p].user = procs[p].user
            /\ procs'[p].calls.userinfo = 1
            /\ userInfoCache'.entries[Subject(p)] = procs[p].user
            /\ \A s \in {"U1", "U2"} \ {Subject(p)} :
                 userInfoCache'.entries[s] = userInfoCache.entries[s]
       /\ (procs[p].pc = "cache_stored" /\ procs'[p].pc # "cache_stored") =>
            /\ procs'[p].pc = "done" /\ procs'[p].result = "ok"
            /\ procs'[p].user = procs[p].user
            /\ procs'[p].calls.userinfo = 1
            /\ userInfoCache' = userInfoCache
       /\ \A s \in {"U1", "U2"} :
            userInfoCache.entries[s] # NULL => userInfoCache'.entries[s] # NULL]_vars

\* a request found the identity that an earlier request for the same subject
\* had fetched and written, and returned it without calling userinfo
C9_Witness ==
  \E p, q \in Procs :
    /\ q < p
    /\ Handled(p) /\ Handled(q)
    /\ procs[p].result = "ok" /\ procs[q].result = "ok"
    /\ Subject(p) = Subject(q)
    /\ ~RefreshSet(p)
    /\ procs[q].calls.userinfo = 1 /\ procs[q].calls.set = 1
    /\ procs[p].calls.get = 1 /\ procs[p].calls.userinfo = 0
    /\ procs[p].user = procs[q].user
    /\ procs[p].user = userInfoCache.entries[Subject(p)]

\* a refreshing handler fetched an identity that differs from the cached one
\* and replaced it
C9_WitnessRefresh ==
  \E p, q \in Procs :
    /\ q < p
    /\ Handled(p) /\ Handled(q)
    /\ procs[p].result = "ok" /\ procs[q].result = "ok"
    /\ Subject(p) = Subject(q)
    /\ RefreshSet(p)
    /\ procs[p].calls.userinfo = 1 /\ procs[q].calls.userinfo = 1
    /\ procs[p].user # procs[q].user
    /\ procs[p].user = userInfoCache.entries[Subject(p)]

----------------------------------------------------------------------------
(* More claims about access-token validation *)

\* the validated token is correctly signed and unexpired
ValidatedSigned ==
  /\ vat.phase = "done"
  /\ vat.token.sig \in ProviderKeys /\ vat.token.exp = "future"

LacksAClaim ==
  vat.token.scope = NULL \/ vat.token.acr = NULL \/ vat.token.permissions = NULL

\* C11, as stated: a correctly signed, unexpired token that lacks the scope,
\* the acr or the permissions claim is rejected with FiefAccessTokenInvalid,
\* whatever the requirements and the other claims.
C11_MissingClaimIsInvalid ==
  (ValidatedSigned /\ LacksAClaim) => vat.result.error = "FiefAccessTokenInvalid"

\* C11, amended: such a token is always rejected; the error is
\* FiefAccessTokenInvalid unless a requirement checked before the missing
\* claim is unsatisfied: a lacking required scope gives
\* FiefAccessTokenMissingScope when the scope claim is there, and an ACR below
\* the required one gives FiefAccessTokenACRTooLow when only the permissions
\* claim is missing.
C11_MissingClaimIsRejected ==
  (ValidatedSigned /\ LacksAClaim) =>
    /\ vat.result.info = NULL
    /\ vat.result.error =
         IF vat.token.scope = NULL THEN "FiefAccessTokenInvalid"
         ELSE IF LacksRequiredScope THEN "FiefAccessTokenMissingScope"
         ELSE IF vat.token.acr = NULL THEN "FiefAccessTokenInvalid"
         ELSE IF ACRBelowRequired THEN "FiefAccessTokenACRTooLow"
         ELSE "FiefAccessTokenInvalid"

\* a token without the permissions claim, whose scope and ACR satisfy what is
\* required, was rejected as invalid although a permission was required
C11_Witness ==
  /\ ValidatedSigned
  /\ vat.token.scope # NULL /\ vat.token.acr = Some(LEVEL_ONE)
  /\ vat.token.permissions = NULL
  /\ vat.requiredScopes # NULL /\ ~LacksRequiredScope
  /\ vat.requiredACR = Some(LEVEL_ONE)
  /\ vat.requiredPermissions # NULL
  /\ vat.result.error = "FiefAccessTokenInvalid"

\* C12: a correctly signed token whose exp has passed fails with
\* FiefAccessTokenExpired, whatever claims it carries or lacks and whatever is
\* required.
C12_ExpiredIsExpired ==
  ( /\ vat.phase = "done"
    /\ vat.token.sig \in ProviderKeys
    /\ vat.token.exp = "past" )
  => vat.result = TokenError("FiefAccessTokenExpired")

\* an expired token without a scope claim, with a scope required, failed as
\* expired
C12_Witness ==
  /\ vat.phase = "done"
  /\ vat.token.sig \in ProviderKeys /\ vat.token.exp = "past"
  /\ vat.token.scope = NULL /\ vat.token.acr = Some("2")
  /\ vat.requiredScopes # NULL
  /\ vat.result.error = "FiefAccessTokenExpired"

\* the pieces joined by single spaces
RECURSIVE JoinWithSpaces(_)
JoinWithSpaces(pieces) ==
  IF Len(pieces) = 0 THEN <<>>
  ELSE IF Len(pieces) = 1 THEN pieces[1]
  ELSE pieces[1] \o <<" ">> \o JoinWithSpaces(Tail(pieces))

\* `pieces` is `str` split on spaces: at least one piece, no space inside a
\* piece, and the pieces joined by spaces give the string back
IsSplitOnSpaces(pieces, str) ==
  /\ Len(pieces) >= 1
  /\ \A i \in 1..Len(pieces) : \A k \in 1..Len(pieces[i]) : pieces[i][k] # " "
  /\ JoinWithSpaces(pieces) = str

\* C13: a FiefAccessTokenInfo is returned only for a token whose signature
\* verified, that is unexpired, carries scope, acr and permissions, and
\* satisfies every required scope, permission and ACR; its id is the sub
\* claim, its scope the scope claim split on spaces, its acr and permissions
\* the claims, and its access_token the input token.
C13_InfoOnlyAfterFullVerification ==
  (vat.phase = "done" /\ (vat.result.info # NULL \/ vat.result.error = "none")) =>
    /\ vat.result.error = "none" /\ vat.result.info # NULL
    /\ ValidatedWithClaims
    /\ ~LacksRequiredScope /\ ~LacksRequiredPermission
    /\ vat.requiredACR # NULL =>
         Level(Get(vat.token.acr)) >= Level(Get(vat.requiredACR))
    /\ LET info == Get(vat.result.info) IN
       /\ info.id = vat.token.sub
       /\ IsSplitOnSpaces(info.scope, Get(vat.token.scope))
       /\ info.acr = Get(vat.token.acr)
       /\ info.permissions = Get(vat.token.permissions)
       /\ info.access_token = vat.token

\* a token whose scope string ends with a space, satisfying a required scope,
\* permission and ACR, was accepted
C13_Witness ==
  /\ vat.phase = "done"
  /\ vat.result.info # NULL
  /\ Len(Get(vat.token.scope)) = 2 /\ Get(vat.token.scope)[2] = " "
  /\ Len(Get(vat.result.info).scope) = 2
  /\ vat.requiredScopes # NULL /\ vat.requiredPermissions # NULL
  /\ vat.requiredACR = Some(LEVEL_ONE)

\* C14: with a required ACR, for a token that reaches the ACR check (its
\* scopes satisfy the requirement and its acr is a defined level), the check
\* passes exactly when the position of the token's acr in the level order is
\* at least the position of the required ACR; otherwise
\* FiefAccessTokenACRTooLow is raised.
C14_ACRComparedByPosition ==
  ( /\ ValidatedWithClaims
    /\ ~LacksRequiredScope
    /\ Get(vat.token.acr) \in FiefACR
    /\ vat.requiredACR # NULL )
  => ( vat.result.error = "FiefAccessTokenACRTooLow"
         <=> Level(Get(vat.token.acr)) < Level(Get(vat.requiredACR)) )

\* a token of level 0 was refused where level 1 is required
C14_Witness ==
  /\ ValidatedWithClaims
  /\ vat.token.acr = Some(LEVEL_ZERO)
  /\ vat.requiredACR = Some(LEVEL_ONE)
  /\ vat.result.error = "FiefAccessTokenACRTooLow"

----------------------------------------------------------------------------
(* More claims about the browser callback, the encryption key and the      *)
(* discovery cache                                                         *)

\* invocation p is a callback whose exchange got a token response and the key
\* set, so that the ID token of the response was verified
Verified(p) ==
  /\ procs[p].op = "authCallback"
  /\ procs[p].pc = "done"
  /\ procs[p].data # NULL
  /\ procs[p].result \in {"ok", "FiefIdTokenInvalid"}

\* C15: on a client constructed with an encryption key, an ID token that is
\* correctly encrypted for the client and correctly signed is accepted by
\* authCallback, however soon after construction the verification runs.
C15_EncryptedTokenAccepted ==
  \A p \in Procs :
    ( /\ Verified(p)
      /\ encryptionKey # "none"
      /\ Get(procs[p].data).id_token.enc = "client"
      /\ Get(procs[p].data).id_token.sig \in ProviderKeys )
    => procs[p].result = "ok"

\* invocation p fails in this step on the answer to its GET of the
\* configuration document or of the key set
FetchFails(p) ==
  /\ procs[p].pc \in {"cfg_wait", "jwks_wait"}
  /\ procs'[p].pc = "done"
  /\ procs'[p].result \in {"FiefRequestError", "SyntaxError"}

\* invocation p gets the configuration from the cache in this step
UsesCachedConfiguration(p) ==
  /\ procs[p].pc \notin {"cfg_wait", "cfg_ready"}
  /\ procs'[p].pc = "cfg_ready"

\* C16: a call that needs the configuration gets the cached value without a
\* fetch when one is cached; a fetch that fails with a non-2xx answer or an
\* unparsable body stores nothing in the cache, so that the next call that
\* needs the value fetches again.
C16_FailedFetchStoresNothing ==
  [][\A p \in Procs :
       /\ FetchFails(p) =>
            /\ openIDConfiguration' = openIDConfiguration
            /\ jwks' = jwks
       /\ UsesCachedConfiguration(p) =>
            /\ requests' = requests
            /\ procs'[p].cfg = "ok"]_vars

\* the invocations whose exchange of code c is in flight
ExchangesInFlight(c) ==
  {p \in Procs : procs[p].op = "authCallback" /\ InFlight(p) /\ procs[p].code = Some(c)}

\* C17, as stated: each distinct authorization code is sent to the token
\* endpoint at most once, whatever the sequence of authCallback invocations.
C17_CodeSentAtMostOnce ==
  \A c \in Codes : requests.token[c] <= 1

\* C17, amended: at any time at most one exchange of a code is in flight on
\* the instance.
C17_OneExchangeInFlightPerCode ==
  \A c \in Codes : Cardinality(ExchangesInFlight(c)) <= 1

\* a code is being exchanged a second time, by an invocation made after its
\* first exchange had stored the session, while no other exchange of it is in
\* flight
C17_Witness ==
  \E c \in Codes, p, q \in Procs :
    /\ q < p
    /\ procs[q].op = "authCallback" /\ procs[q].pc = "done"
    /\ procs[q].result = "ok" /\ procs[q].code = Some(c)
    /\ ExchangesInFlight(c) = {p}
    /\ procs[p].pc = "token_wait"
    /\ requests.token[c] = 2

\* C18: once a browser authCallback invocation has settled, whatever its
\* outcome, the storage no longer holds the code verifier.
C18_VerifierClearedOnceSettled ==
  (\E p \in Procs : procs[p].op = "authCallback" /\ procs[p].pc = "done")
    => storage.codeVerifier = NULL

\* invocation p is called in this step as a callback on a location with an
\* error parameter, or with no code parameter
StartsCallbackWithoutCode(p) ==
  /\ procs[p].pc = "idle"
  /\ procs'[p].pc # "idle"
  /\ procs'[p].op = "authCallback"
  /\ LET search == Get(procs'[p].search) IN search.error # NULL \/ search.code = NULL

\* C20: a callback on a location with an error parameter raises
\* FiefAuthAuthorizeError carrying that error and its error_description; one
\* with neither error nor code raises FiefAuthAuthorizeError('missing_code');
\* in both cases no token request is sent and the stored token info and user
\* info are unchanged.
C20_AuthorizeErrorRaised ==
  [][\A p \in Procs :
       StartsCallbackWithoutCode(p) =>
         LET search == Get(procs'[p].search) IN
         /\ procs'[p].pc = "done"
         /\ procs'[p].result = "FiefAuthAuthorizeError"
         /\ procs'[p].thrown =
              IF search.error # NULL
                THEN Some([error |-> Get(search.error),
                           description |-> search.error_description])
                ELSE Some([error |-> "missing_code", description |-> NULL])
         /\ requests' = requests
         /\ storage'.tokenInfo = storage.tokenInfo
         /\ storage'.userinfo = storage.userinfo]_vars

\* a callback on a location with an error, its description and a code raised
\* the error with its description, after an earlier callback had stored a
\* session, which is still there
C20_Witness ==
  \E p \in Procs :
    /\ procs[p].op = "authCallback" /\ procs[p].pc = "done"
    /\ Get(procs[p].search).error = Some("invalid_request")
    /\ Get(procs[p].search).code # NULL
    /\ procs[p].thrown = Some([error |-> "invalid_request",
                               description |-> Some("An error occured")])
    /\ storage.tokenInfo # NULL
    /\ \A c \in Codes : requests.token[c] <= 1

----------------------------------------------------------------------------
(* Browser FiefAuth.redirectToLogin *)

\* the extra parameters a caller may pass: none, an empty object, a parameter
\* of its own, or one named like a parameter getAuthURL sets
ExtrasParams ==
  {NULL, Some(EmptyObject), Some(Property("foo", "bar")),
   Some(Property("code_challenge", "OTHER")),
   Some(Property("code_challenge_method", "plain"))}

LoginParameters ==
  [state : {NULL, Some(""), Some("STATE")},
   scope : {NULL, Some(<<"openid", "profile">>)},
   lang : {NULL, Some("fr")},
   extrasParams : ExtrasParams]

\* FiefAuth.redirectToLogin(redirectURI, parameters) up to the first
\* suspension of getAuthURL: the verifier is generated and stored
RedirectToLogin(p, codeVerifier) ==
  /\ procs[p].pc = "idle"
  /\ procs[p].parameters # NULL
  /\ UNCHANGED <<openIDConfiguration, jwks, encryptionKey, pendingAuthCallbacks,
                 userInfoCache, callVars, location>>
  /\ LET me == [procs[p] EXCEPT !.op = "redirectToLogin",
                                !.codeVerifier = Some(codeVerifier)]
         next == getOpenIDConfiguration(me, "authorize")
     IN /\ storage' = [storage EXCEPT !.codeVerifier = Some(codeVerifier)]
        /\ procs' = [procs EXCEPT ![p] = next]
        /\ requests' = Sent(me, next)

\* a browser FiefAuth whose application calls redirectToLogin with given
\* parameters
InitLogin ==
  /\ openIDConfiguration = "undefined"
  /\ jwks = "undefined"
  /\ encryptionKey = "none"
  /\ pendingAuthCallbacks = {}
  /\ storage = [tokenInfo |-> NULL, userinfo |-> NULL, codeVerifier |-> NULL]
  /\ requests = [config |-> 0, jwks |-> 0, token |-> [c \in Codes |-> 0]]
  /\ \E parameters \in LoginParameters :
       procs = [p \in Procs |-> [IdleProc EXCEPT !.parameters = Some(parameters)]]
  /\ userInfoCache = NoCache
  /\ idt = NoProbe
  /\ vat = NoProbe
  /\ call = NoProbe
  /\ location = NULL

NextLogin ==
  \/ \E p \in Procs, codeVerifier \in CodeVerifiers :
       NextToStart(p) /\ RedirectToLogin(p, codeVerifier)
  \/ \E p \in Procs, outcome \in NetOutcomes : ConfigResponse(p, outcome)
  \/ \E p \in Procs : ConfigReady(p)

SpecLogin == InitLogin /\ [][NextLogin]_vars

\* invocation p of redirectToLogin sends the browser to the authorization
\* URL in this step
Navigates(p) ==
  /\ procs[p].op = "redirectToLogin"
  /\ procs[p].pc = "cfg_ready"
  /\ procs'[p].pc = "done"
  /\ procs'[p].result = "ok"

\* C19: whatever the caller's parameters (state, scope, lang, extrasParams),
\* the authorization URL the browser is sent to carries
\* code_challenge_method=S256 and the S256 challenge of the code verifier the
\* same call stored.
C19_ChallengeOfStoredVerifier ==
  [][\A p \in Procs :
       Navigates(p) =>
         /\ location' # NULL
         /\ LET params == Get(location').params IN
            /\ params["code_challenge_method"] = Some("S256")
            /\ params["code_challenge"] =
                 Some("sha256(" \o Get(procs[p].codeVerifier) \o ").lo+sha256("
                      \o Get(procs[p].codeVerifier) \o ").hi")]_vars

----------------------------------------------------------------------------
(* The Fief client on its own: token refresh, userinfo and the profile     *)
(* operations, and the answers of the provider with their status           *)

\* the statuses the provider answers with, on both sides of 200..299
Statuses == {199, 200, 299, 300}

\* the body of an answer: a JSON document, or a text that is not one
Bodies == {"{json}", "Bad Request"}

\* the answers of the provider: any status with a JSON body, and the ends of
\* 200..299 with a text
Responses ==
  {r \in [status : Statuses, body : Bodies] :
     r.body = "{json}" \/ r.status \in {199, 200}}

\* Fief.handleRequestError(response): the error it throws, if any
handleRequestError_AboveOnly(response) ==
  IF response.status > 299
    THEN Some([name |-> "FiefRequestError", status |-> response.status,
               detail |-> response.body])
  ELSE NULL

handleRequestError(response) ==
  IF response.status < 200 \/ response.status > 299
    THEN Some([name |-> "FiefRequestError", status |-> response.status,
               detail |-> response.body])
  ELSE NULL

\* how `await response.json()` ends for the body of a response
json(response) == IF response.body = "{json}" THEN "ok" ELSE "badjson"

\* Fief.authRefreshToken(refreshToken), up to its first suspension
authRefreshToken(p) ==
  /\ procs[p].pc = "idle"
  /\ UNCHANGED <<openIDConfiguration, jwks, encryptionKey, pendingAuthCallbacks,
                 storage, userInfoCache, callVars, location>>
  /\ LET me == [procs[p] EXCEPT !.op = "authRefreshToken",
                                !.jwksAtStart = (jwks # "undefined")]
         next == getOpenIDConfiguration(me, "refresh")
     IN /\ procs' = [procs EXCEPT ![p] = next]
        /\ requests' = Sent(me, next)

\* the token responses the endpoint may give to a refresh: an ID token bound
\* to the new access token, or one that also carries a c_hash
RefreshTokenResponses ==
  LET idToken == [ProviderIdToken("CODE1", "AT2") EXCEPT !.c_hash = NULL] IN
  { [access_token |-> Some("AT2"), id_token |-> idToken],
    [access_token |-> Some("AT2"),
     id_token |-> [idToken EXCEPT !.c_hash = Some(getValidationHash("CODE1"))]] }

\* the answer of the token endpoint to a refresh arrives; on a 2xx answer the
\* operation asks for the key set
RefreshTokenResponse(p, outcome, response) ==
  /\ procs[p].op = "authRefreshToken"
  /\ procs[p].pc = "token_wait"
  /\ response \in RefreshTokenResponses
  /\ UNCHANGED <<openIDConfiguration, jwks, encryptionKey, pendingAuthCallbacks,
                 storage, userInfoCache, callVars, location>>
  /\ IF outcome = "ok"
       THEN LET next == getJWKS([procs[p] EXCEPT !.data = Some(response)])
            IN /\ procs' = [procs EXCEPT ![p] = next]
               /\ requests' = Sent(procs[p], next)
     ELSE /\ Throw(p, NetError(outcome))
          /\ UNCHANGED requests

\* Fief.userinfo(accessToken), up to its first suspension
userinfo(p) ==
  /\ procs[p].pc = "idle"
  /\ UNCHANGED <<openIDConfiguration, jwks, encryptionKey, pendingAuthCallbacks,
                 storage, userInfoCache, callVars, location>>
  /\ LET me == [procs[p] EXCEPT !.op = "userinfo"]
         next == getOpenIDConfiguration(me, "userinfo")
     IN /\ procs' = [procs EXCEPT ![p] = next]
        /\ requests' = Sent(me, next)

\* the operations on the user's profile: each sends one request to an
\* endpoint under baseURL, with no configuration needed
ProfileOperations == {"updateProfile", "changePassword", "emailChange", "emailVerify"}

ProfileRequest(p, op) ==
  /\ procs[p].pc = "idle"
  /\ op \in ProfileOperations
  /\ procs' = [procs EXCEPT ![p].op = op, ![p].pc = "api_wait", ![p].sent.api = @ + 1]
  /\ UNCHANGED <<openIDConfiguration, jwks, encryptionKey, pendingAuthCallbacks,
                 storage, requests, userInfoCache, callVars, location>>

\* the answer to userinfo or to a profile operation arrives: its JSON body is
\* the result
ApiResponse(p, outcome, data) ==
  /\ procs[p].op \in ProfileOperations \cup {"userinfo"}
  /\ procs[p].pc \in {"userinfo_wait", "api_wait"}
  /\ data \in UserInfos("U1")
  /\ UNCHANGED <<openIDConfiguration, jwks, encryptionKey, pendingAuthCallbacks,
                 storage, requests, userInfoCache, callVars, location>>
  /\ IF outcome = "ok"
       THEN procs' = [procs EXCEPT ![p].pc = "done", ![p].result = "ok",
                                   ![p].user = Some(data)]
       ELSE Throw(p, NetError(outcome))

\* the invocations that await the answer to a request
Awaits(p) ==
  procs[p].pc \in {"cfg_wait", "jwks_wait", "token_wait", "userinfo_wait", "api_wait"}

\* the provider's answer to the request of invocation p arrives.  Every
\* operation hands it to handleRequestError first, and goes on with a 2xx
\* answer only.
Respond(p, response) ==
  /\ Awaits(p)
  /\ IF handleRequestError(response) # NULL
       THEN /\ procs' = [procs EXCEPT ![p].pc = "done",
                                      ![p].result = "FiefRequestError",
                                      ![p].thrown = handleRequestError(response)]
            /\ UNCHANGED <<openIDConfiguration, jwks, encryptionKey,
                           pendingAuthCallbacks, storage, requests, userInfoCache,
                           callVars, location>>
       ELSE \/ ConfigResponse(p, json(response))
            \/ JWKSResponse(p, json(response))
            \/ \E c \in Codes : \E data \in TokenResponses(c) :
                 TokenResponse(p, json(response), data)
            \/ \E data \in RefreshTokenResponses :
                 RefreshTokenResponse(p, json(response), data)
            \/ ApiResponse(p, json(response), [sub |-> "U1", email |-> "a@fief"])

\* the host's fetch rejects: the request of invocation p was cancelled, timed
\* out or could not be sent
FetchRejects(p) ==
  \/ ConfigResponse(p, "abort")
  \/ JWKSResponse(p, "abort")
  \/ \E c \in Codes : \E data \in TokenResponses(c) : TokenResponse(p, "abort", data)
  \/ \E data \in RefreshTokenResponses : RefreshTokenResponse(p, "abort", data)
  \/ ApiResponse(p, "abort", [sub |-> "U1", email |-> "a@fief"])

\* a client without an encryption key, and a browser FiefAuth on it
InitFief ==
  /\ openIDConfiguration = "undefined"
  /\ jwks = "undefined"
  /\ encryptionKey = "none"
  /\ pendingAuthCallbacks = {}
  /\ storage = [tokenInfo |-> NULL, userinfo |-> NULL, codeVerifier |-> NULL]
  /\ requests = [config |-> 0, jwks |-> 0, token |-> [c \in Codes |-> 0]]
  /\ procs = [p \in Procs |-> IdleProc]
  /\ userInfoCache = NoCache
  /\ idt = NoProbe
  /\ vat = NoProbe
  /\ call = NoProbe
  /\ location = NULL

NextFief ==
  \/ \E p \in Procs :
       /\ NextToStart(p)
       /\ authCallback(p, [error |-> NULL, error_description |-> NULL,
                           code |-> Some("CODE1")])
  \/ \E p \in Procs : NextToStart(p) /\ authRefreshToken(p)
  \/ \E p \in Procs : NextToStart(p) /\ userinfo(p)
  \/ \E p \in Procs, op \in ProfileOperations : NextToStart(p) /\ ProfileRequest(p, op)
  \/ \E p \in Procs, response \in Responses : Respond(p, response)
  \/ \E p \in Procs : FetchRejects(p)
  \/ \E p \in Procs : ConfigReady(p)
  \/ \E p \in Procs : VerifyIDToken(p)
  \/ \E p \in Procs : StoreSession(p)

SpecFief == InitFief /\ [][NextFief]_vars

\* invocation p of Fief.authCallback or Fief.authRefreshToken has returned the
\* pair [token response, identity claims] to its caller
ReturnedPair(p) ==
  \/ procs[p].op = "authCallback" /\ procs[p].pc = "store"
  \/ procs[p].op = "authCallback" /\ procs[p].pc = "done" /\ procs[p].result = "ok"
  \/ procs[p].op = "authRefreshToken" /\ procs[p].pc = "done" /\ procs[p].result = "ok"

\* the ID token t is signed by a key of the provider's key set, has not
\* expired, and each hash claim it carries is the validation hash of the code
\* resp. the access token of the call
PassesVerification(t, code, accessToken) ==
  /\ t.sig \in ProviderKeys
  /\ t.exp = "future"
  /\ t.c_hash # NULL =>
       code # NULL /\ Get(t.c_hash) = getValidationHash(Get(code))
  /\ t.at_hash # NULL =>
       accessToken # NULL /\ Get(t.at_hash) = getValidationHash(Get(accessToken))

\* C21: authCallback and authRefreshToken return a pair only when the token
\* endpoint answered 2xx (the invocation holds the body of that answer) and
\* the ID token of that answer passed verification, and the claims of the
\* pair are the payload of that ID token; an invocation that raised
\* FiefIdTokenInvalid has returned no pair and no claims, and an invocation
\* holds claims only when it returned a pair.
C21_PairOnlyAfterVerification ==
  \A p \in Procs :
    procs[p].op \in {"authCallback", "authRefreshToken"} =>
      /\ ReturnedPair(p) =>
           /\ procs[p].data # NULL
           /\ PassesVerification(Get(procs[p].data).id_token, procs[p].code,
                                 Get(procs[p].data).access_token)
           /\ procs[p].claims = Some(Claims(Get(procs[p].data).id_token))
      /\ procs[p].result = "FiefIdTokenInvalid" =>
           ~ReturnedPair(p) /\ procs[p].claims = NULL
      /\ procs[p].claims # NULL => ReturnedPair(p)

\* a refresh returned its pair, and a callback raised FiefIdTokenInvalid on
\* the ID token of a 2xx answer
C21_Witness ==
  \E p, q \in Procs :
    /\ procs[p].op = "authRefreshToken" /\ ReturnedPair(p)
    /\ procs[p].claims = Some(Claims(Get(procs[p].data).id_token))
    /\ procs[q].op = "authCallback" /\ procs[q].result = "FiefIdTokenInvalid"
    /\ procs[q].data # NULL

----------------------------------------------------------------------------
(* The ways an ID token fails verification *)

\* the client has a key and the token is not a JWE encrypted for it
DecryptionFails == encryptionKey = "imported" /\ idt.idToken.enc # "client"

\* what is handed to jwtVerify is not a compact JWS (here: a JWE, on a client
\* without a key)
Malformed == encryptionKey # "imported" /\ idt.idToken.enc # "none"

BadSignature == idt.idToken.sig \notin ProviderKeys

Expired == idt.idToken.exp = "past"

\* the token carries c_hash and the call has a code with another hash
CHashMismatch ==
  /\ idt.idToken.c_hash # NULL /\ idt.code # NULL
  /\ Get(idt.idToken.c_hash) # getValidationHash(Get(idt.code))

ATHashMismatch ==
  /\ idt.idToken.at_hash # NULL /\ idt.accessToken # NULL
  /\ Get(idt.idToken.at_hash) # getValidationHash(Get(idt.accessToken))

\* the token carries a hash claim and the call has nothing to check it against
HashClaimWithoutValue ==
  \/ idt.idToken.c_hash # NULL /\ idt.code = NULL
  \/ idt.idToken.at_hash # NULL /\ idt.accessToken = NULL

\* C22: a token that fails to decrypt, is malformed, badly signed or expired,
\* whose c_hash or at_hash does not match, or that carries a hash claim with
\* no code or access token to check it against, makes decodeIDToken raise
\* FiefIdTokenInvalid; the error of every evaluation that does not return
\* claims is that same value, with nothing in it that tells the cases apart.
C22_EveryFailureIsIdTokenInvalid ==
  idt.phase = "done" =>
    /\ ( \/ DecryptionFails \/ Malformed \/ BadSignature \/ Expired
         \/ CHashMismatch \/ ATHashMismatch \/ HashClaimWithoutValue )
       => idt.result = IdTokenInvalid
    /\ idt.result.error # "none" => idt.result = IdTokenInvalid

\* a correctly signed, unexpired token that does not decrypt with the client's
\* key was refused
C22_Witness ==
  /\ idt.phase = "done"
  /\ idt.result = IdTokenInvalid
  /\ DecryptionFails
  /\ ~BadSignature /\ ~Expired /\ ~HashClaimWithoutValue

\* a correctly signed, unexpired token carrying c_hash was refused in a call
\* without a code (a refresh)
C22_WitnessNoCode ==
  /\ idt.phase = "done"
  /\ idt.result = IdTokenInvalid
  /\ ~DecryptionFails /\ ~Malformed /\ ~BadSignature /\ ~Expired
  /\ idt.idToken.c_hash # NULL /\ idt.code = NULL
  /\ idt.idToken.at_hash = NULL

----------------------------------------------------------------------------
(* Answers with an error status *)

\* the step delivers response r to invocation p, which awaits the answer to
\* the request it sent, and r has a status outside 200..299
AnswersWithErrorStatus(p, r) ==
  /\ r.status \notin 200..299
  /\ Respond(p, r)

\* C23: for every operation that awaits an answer of the provider (discovery,
\* key set, code exchange, refresh, userinfo, the four profile operations), an
\* answer with a status outside 200..299 settles the operation with
\* FiefRequestError carrying that status and that body, and nothing else
\* happens in the step: no body is taken as a result, no claims are produced,
\* neither cache nor the storage nor the pending set changes, no request is
\* sent.
C23_ErrorStatusRaisesRequestError ==
  [][\A p \in Procs, r \in Responses :
       AnswersWithErrorStatus(p, r) =>
         /\ procs'[p].pc = "done"
         /\ procs'[p].result = "FiefRequestError"
         /\ procs'[p].thrown =
              Some([name |-> "FiefRequestError", status |-> r.status,
                    detail |-> r.body])
         /\ procs'[p].data = procs[p].data
         /\ procs'[p].claims = NULL
         /\ procs'[p].user = NULL
         /\ \A q \in Procs \ {p} : procs'[q] = procs[q]
         /\ openIDConfiguration' = openIDConfiguration
         /\ jwks' = jwks
         /\ storage' = storage
         /\ pendingAuthCallbacks' = pendingAuthCallbacks
         /\ requests' = requests]_vars

\* every kind of request has been answered with an error status: one
\* invocation failed on the configuration document with status 199, another
\* on its own request (of the token endpoint, a profile endpoint or the
\* userinfo endpoint) with status 300
C23_Witness ==
  \E p, q \in Procs :
    /\ procs[p].pc = "done" /\ procs[p].result = "FiefRequestError"
    /\ procs[p].op = "authRefreshToken"
    /\ Get(procs[p].thrown).status = 199
    /\ procs[q].pc = "done" /\ procs[q].result = "FiefRequestError"
    /\ procs[q].op = "emailVerify"
    /\ Get(procs[q].thrown).status = 300
    /\ Get(procs[q].thrown).detail = "{json}"

----------------------------------------------------------------------------
(* The session of the browser FiefAuth: logout and refreshUserinfo, with   *)
(* callbacks in flight                                                     *)

\* where the application asks the provider to send the user after the logout
RedirectURIs == {"https://app/bye", "https://app/home"}

\* Fief.getLogoutURL({redirectURI}): the logout endpoint and the query
\* parameters of the URL
getLogoutURL(parameters) ==
  [endpoint |-> BaseURL \o "/logout",
   params |-> Property("redirect_uri", parameters.redirectURI)]

\* FiefAuth.logout(redirectURI) up to its await of getLogoutURL: both entries
\* of the session are removed from the storage
logout_KeepsUserinfo(p, redirectURI) ==
  /\ procs[p].pc = "idle"
  /\ storage' = [storage EXCEPT !.tokenInfo = NULL]
  /\ procs' = [procs EXCEPT ![p].op = "logout", ![p].pc = "logout_url",
                            ![p].parameters = Some([redirectURI |-> redirectURI])]
  /\ UNCHANGED <<openIDConfiguration, jwks, encryptionKey, pendingAuthCallbacks,
                 requests, userInfoCache, callVars, location>>

logout(p, redirectURI) ==
  /\ procs[p].pc = "idle"
  /\ storage' = [storage EXCEPT !.userinfo = NULL, !.tokenInfo = NULL]
  /\ procs' = [procs EXCEPT ![p].op = "logout", ![p].pc = "logout_url",
                            ![p].parameters = Some([redirectURI |-> redirectURI])]
  /\ UNCHANGED <<openIDConfiguration, jwks, encryptionKey, pendingAuthCallbacks,
                 requests, userInfoCache, callVars, location>>

\* logout goes on once the promise of getLogoutURL has resolved: the browser
\* is sent to the logout URL
LogoutRedirect(p) ==
  /\ procs[p].op = "logout"
  /\ procs[p].pc = "logout_url"
  /\ location' = Some(getLogoutURL(Get(procs[p].parameters)))
  /\ procs' = [procs EXCEPT ![p].pc = "done", ![p].result = "ok"]
  /\ UNCHANGED <<openIDConfiguration, jwks, encryptionKey, pendingAuthCallbacks,
                 storage, requests, userInfoCache, callVars>>

\* FiefAuth.refreshUserinfo() up to the first suspension of client.userinfo,
\* which is called with the access token of the stored token info
refreshUserinfo_NoSessionNeeded(p) ==
  /\ procs[p].pc = "idle"
  /\ UNCHANGED <<openIDConfiguration, jwks, encryptionKey, pendingAuthCallbacks,
                 storage, userInfoCache, callVars, location>>
  /\ LET me == [procs[p] EXCEPT !.op = "refreshUserinfo"]
         next == getOpenIDConfiguration(
                   [me EXCEPT !.token =
                      IF storage.tokenInfo = NULL THEN NULL
                      ELSE Get(storage.tokenInfo).access_token], "userinfo")
     IN /\ procs' = [procs EXCEPT ![p] = next]
        /\ requests' = Sent(me, next)

refreshUserinfo(p) ==
  /\ procs[p].pc = "idle"
  /\ UNCHANGED <<openIDConfiguration, jwks, encryptionKey, pendingAuthCallbacks,
                 storage, userInfoCache, callVars, location>>
  /\ LET me == [procs[p] EXCEPT !.op = "refreshUserinfo"]
     IN IF storage.tokenInfo = NULL
          THEN /\ procs' = [procs EXCEPT ![p] =
                    [me EXCEPT !.pc = "done",
                               !.result = "FiefAuthNotAuthenticatedError"]]
               /\ UNCHANGED requests
          ELSE LET next == getOpenIDConfiguration(
                             [me EXCEPT !.token = Get(storage.tokenInfo).access_token],
                             "userinfo")
               IN /\ procs' = [procs EXCEPT ![p] = next]
                  /\ requests' = Sent(me, next)

\* the answer of the userinfo endpoint arrives in refreshUserinfo: the
\* identity is stored and returned
RefreshUserinfoResponse(p, outcome, data) ==
  /\ procs[p].op = "refreshUserinfo"
  /\ procs[p].pc = "userinfo_wait"
  /\ data \in UserInfos("U1")
  /\ UNCHANGED <<openIDConfiguration, jwks, encryptionKey, pendingAuthCallbacks,
                 requests, userInfoCache, callVars, location>>
  /\ IF outcome = "ok"
       THEN /\ storage' = [storage EXCEPT !.userinfo = Some(data)]
            /\ procs' = [procs EXCEPT ![p].pc = "done", ![p].result = "ok",
                                      ![p].user = Some(data)]
       ELSE /\ Throw(p, NetError(outcome))
            /\ UNCHANGED storage

\* the session an earlier login left in the storage
StoredSession ==
  [tokenInfo |-> Some([access_token |-> Some("AT0"),
                       id_token |-> ProviderIdToken("CODE0", "AT0")]),
   userinfo |-> Some([sub |-> "U1", email |-> "a@fief"]),
   codeVerifier |-> NULL]

\* a browser FiefAuth on a fresh client, with or without a session in its
\* storage
InitSession ==
  /\ openIDConfiguration = "undefined"
  /\ jwks = "undefined"
  /\ encryptionKey = "none"
  /\ pendingAuthCallbacks = {}
  /\ storage \in {StoredSession,
                  [tokenInfo |-> NULL, userinfo |-> NULL, codeVerifier |-> NULL]}
  /\ requests = [config |-> 0, jwks |-> 0, token |-> [c \in Codes |-> 0]]
  /\ procs = [p \in Procs |-> IdleProc]
  /\ userInfoCache = NoCache
  /\ idt = NoProbe
  /\ vat = NoProbe
  /\ call = NoProbe
  /\ location = NULL

NextSession ==
  \/ \E p \in Procs, c \in Codes :
       /\ NextToStart(p)
       /\ authCallback(p, [error |-> NULL, error_description |-> NULL,
                           code |-> Some(c)])
  \/ \E p \in Procs, redirectURI \in RedirectURIs :
       NextToStart(p) /\ logout(p, redirectURI)
  \/ \E p \in Procs : LogoutRedirect(p)
  \/ \E p \in Procs : NextToStart(p) /\ refreshUserinfo(p)
  \/ \E p \in Procs, outcome \in ServerNetOutcomes : ConfigResponse(p, outcome)
  \/ \E p \in Procs : ConfigReady(p)
  \/ \E p \in Procs, outcome \in ServerNetOutcomes, c \in Codes :
       \E response \in TokenResponses(c) : TokenResponse(p, outcome, response)
  \/ \E p \in Procs, outcome \in ServerNetOutcomes : JWKSResponse(p, outcome)
  \/ \E p \in Procs : VerifyIDToken(p)
  \/ \E p \in Procs : StoreSession(p)
  \/ \E p \in Procs, outcome \in ServerNetOutcomes :
       \E data \in UserInfos("U1") : RefreshUserinfoResponse(p, outcome, data)

SpecSession == InitSession /\ [][NextSession]_vars

\* invocation p of logout completes in this step
LogoutCompletes(p) ==
  procs[p].op = "logout" /\ procs[p].pc = "logout_url" /\ procs'[p].pc = "done"

\* invocation p starts in this step, as a logout
LogoutStarts(p) ==
  procs[p].pc = "idle" /\ procs'[p].op = "logout"

\* the logout URL of the provider carrying the redirect_uri of invocation p
LogoutURLOf(p) ==
  [endpoint |-> "https://idp/logout",
   params |-> [k \in Keys |->
                 IF k = "redirect_uri"
                   THEN Some(Get(procs[p].parameters).redirectURI) ELSE NULL]]

\* C24, as stated: whatever else is in flight, when a logout completes the
\* storage holds neither token info nor user info and the browser has been
\* sent to the logout URL carrying the redirect_uri of the call.
C24_LogoutLeavesNoSession ==
  [][\A p \in Procs :
       LogoutCompletes(p) =>
         /\ storage'.tokenInfo = NULL
         /\ storage'.userinfo = NULL
         /\ location' = Some(LogoutURLOf(p))]_vars

\* invocation q completes in this step an authCallback whose exchange
\* succeeded, resp. a refreshUserinfo whose request succeeded
CallbackStores(q) ==
  procs[q].op = "authCallback" /\ procs[q].pc = "store" /\ procs'[q].pc = "done"

RefreshStores(q) ==
  /\ procs[q].op = "refreshUserinfo" /\ procs[q].pc = "userinfo_wait"
  /\ procs'[q].pc = "done" /\ procs'[q].result = "ok"

\* C24, amended: logout removes token info and user info from the storage in
\* its first step, before it suspends, and when it completes the browser is
\* sent to the logout URL carrying the redirect_uri of the call, the storage
\* being left as it is; the storage gets token info again only by the
\* completion of an authCallback, and user info only by that or by the
\* completion of a refreshUserinfo, which may happen between the two steps of
\* a logout.
C24_LogoutClearsThenRedirects ==
  [][ /\ \A p \in Procs :
           /\ LogoutStarts(p) =>
                /\ storage'.tokenInfo = NULL /\ storage'.userinfo = NULL
                /\ location' = location
           /\ LogoutCompletes(p) =>
                /\ location' = Some(LogoutURLOf(p))
                /\ storage' = storage
      /\ (storage'.tokenInfo # NULL /\ storage'.tokenInfo # storage.tokenInfo)
           => \E q \in Procs : CallbackStores(q)
      /\ (storage'.userinfo # NULL /\ storage'.userinfo # storage.userinfo)
           => \E q \in Procs : CallbackStores(q) \/ RefreshStores(q) ]_vars

\* a logout has completed after a callback had stored its session: the
\* storage is empty and the browser is at the logout URL
C24_Witness ==
  \E p, q \in Procs :
    /\ q < p
    /\ procs[q].op = "authCallback" /\ procs[q].pc = "done" /\ procs[q].result = "ok"
    /\ procs[p].op = "logout" /\ procs[p].pc = "done"
    /\ storage.tokenInfo = NULL /\ storage.userinfo = NULL
    /\ location = Some(LogoutURLOf(p))

\* a callback in flight stored its session between the two steps of a logout
C24_WitnessOverlap ==
  \E p, q \in Procs :
    /\ procs[q].op = "authCallback" /\ procs[q].pc = "done" /\ procs[q].result = "ok"
    /\ procs[p].op = "logout" /\ procs[p].pc = "logout_url"
    /\ storage.tokenInfo # NULL

\* invocation p starts in this step, as a refreshUserinfo
RefreshStarts(p) ==
  procs[p].pc = "idle" /\ procs'[p].op = "refreshUserinfo"

\* C25: a refreshUserinfo that finds no token info in the storage settles at
\* once with FiefAuthNotAuthenticatedError, sends no request and leaves the
\* storage as it is; one that finds token info calls userinfo with the stored
\* access token, and when the userinfo endpoint has answered it stores the
\* identity of the answer as the user info of the session and returns it.
C25_RefreshUserinfo ==
  [][\A p \in Procs :
       /\ (RefreshStarts(p) /\ storage.tokenInfo = NULL) =>
            /\ procs'[p].pc = "done"
            /\ procs'[p].result = "FiefAuthNotAuthenticatedError"
            /\ requests' = requests
            /\ storage' = storage
       /\ (RefreshStarts(p) /\ storage.tokenInfo # NULL) =>
            /\ procs'[p].pc \in {"cfg_wait", "cfg_ready"}
            /\ procs'[p].token = Get(storage.tokenInfo).access_token
            /\ storage' = storage
       /\ (procs[p].op = "refreshUserinfo" /\ procs[p].pc # "done") =>
            procs'[p].token = procs[p].token
       /\ RefreshStores(p) =>
            /\ procs'[p].user # NULL
            /\ storage'.userinfo = procs'[p].user
            /\ storage'.tokenInfo = storage.tokenInfo]_vars

\* a refreshUserinfo called with the stored access token AT0 has stored and
\* returned the identity the endpoint answered, another than the stored one
C25_Witness ==
  \E p \in Procs :
    /\ procs[p].op = "refreshUserinfo" /\ procs[p].pc = "done"
    /\ procs[p].result = "ok"
    /\ procs[p].token = Some("AT0")
    /\ procs[p].user = Some([sub |-> "U1", email |-> "b@fief"])
    /\ storage.userinfo = procs[p].user

\* a refreshUserinfo without a session was refused
C25_WitnessNoSession ==
  \E p \in Procs :
    /\ procs[p].op = "refreshUserinfo" /\ procs[p].pc = "done"
    /\ procs[p].result = "FiefAuthNotAuthenticatedError"
    /\ requests.config = 0

----------------------------------------------------------------------------
(* The helper functions on their own: one evaluation for every input of    *)
(* the value sets                                                          *)

\* the values hashed: code verifiers, codes, access tokens, the empty string
HashInputs == CodeVerifiers \cup Strings

\* the methods getCodeChallenge is called with ("S512" is not one it knows)
ChallengeMethods == {"plain", "S256", "S512"}

CryptoCalls ==
  [phase : {"input"}, fn : {"getCodeChallenge"}, code : HashInputs,
   method : ChallengeMethods, result : {NULL}]

\* getCodeChallenge(code, method) is evaluated
GetCodeChallenge ==
  /\ call.phase = "input"
  /\ call.fn = "getCodeChallenge"
  /\ call' = [call EXCEPT !.phase = "done",
                !.result = Some(getCodeChallenge(call.code, call.method))]
  /\ UNCHANGED <<openIDConfiguration, jwks, encryptionKey, pendingAuthCallbacks,
                 storage, requests, procs, userInfoCache, idt, vat, location>>

\* URLSearchParams lists the parameters in the order in which the object
\* literal of getAuthURL names them, the caller's own last
KeyOrder ==
  <<"response_type", "client_id", "redirect_uri", "state", "code_challenge",
    "code_challenge_method", "scope", "lang", "foo">>

\* a string given by its pieces: the characters the serialisation encodes each
\* stand alone, the runs of characters it keeps are one piece
RECURSIVE Str(_)
Str(text) == IF Len(text) = 0 THEN "" ELSE text[1] \o Str(Tail(text))

\* the strings that are names or values of query parameters, by their pieces
Texts ==
  { <<>>, <<"code">>, <<"token">>, <<"ID">>, <<"STATE">>, <<"CH">>, <<"S256">>,
    <<"fr">>, <<"bar">>, <<"openid">>, <<"openid", " ", "profile">>,
    <<"https", ":", "/", "/", "a", "/", "cb">>,
    <<"grant_type">>, <<"authorization_code">>, <<"refresh_token">>,
    <<"client_id">>, <<"redirect_uri">>, <<"client_secret">>,
    <<"code_verifier">>, <<"scope">>, <<"CODE1">>, <<"CODE2">>, <<"SECRET">>,
    <<"V1">>, <<"RT">>, <<"openid", " ", "offline_access">> }

Characters(str) == CHOOSE text \in Texts : Str(text) = str

\* the application/x-www-form-urlencoded serialisation URLSearchParams
\* applies to names and values: a space becomes "+", the characters outside
\* its safe set their percent-encoding
serializeCharacter(c) ==
  CASE c = " " -> "+"
    [] c = ":" -> "%3A"
    [] c = "/" -> "%2F"
    [] OTHER -> c

RECURSIVE serializeText(_)
serializeText(text) ==
  IF Len(text) = 0 THEN ""
  ELSE serializeCharacter(text[1]) \o serializeText(Tail(text))

serialize(str) == serializeText(Characters(str))

\* URLSearchParams.prototype.toString(): name=value pairs joined by "&"
RECURSIVE toStringFrom(_, _)
toStringFrom(params, i) ==
  IF i > Len(KeyOrder) THEN <<>>
  ELSE IF params[KeyOrder[i]] = NULL THEN toStringFrom(params, i + 1)
  ELSE <<KeyOrder[i] \o "=" \o serialize(Get(params[KeyOrder[i]]))>>
         \o toStringFrom(params, i + 1)

RECURSIVE joinWith(_, _)
joinWith(array, separator) ==
  IF Len(array) = 0 THEN ""
  ELSE IF Len(array) = 1 THEN array[1]
  ELSE array[1] \o separator \o joinWith(Tail(array), separator)

toString(params) == joinWith(toStringFrom(params, 1), "&")

\* the string getAuthURL and getLogoutURL return for a URL:
\* `${endpoint}?${params.toString()}`
href(url) == url.endpoint \o "?" \o toString(url.params)

\* the parameters getAuthURL is called with
AuthURLCalls ==
  [phase : {"input"}, fn : {"getAuthURL"},
   parameters :
     [redirectURI : {"https://a/cb"},
      state : {NULL, Some(""), Some("STATE")},
      scope : {NULL, Some(<<"openid">>), Some(<<"openid", "profile">>)},
      codeChallenge : {NULL, Some("CH")},
      codeChallengeMethod : {NULL, Some("S256")},
      lang : {NULL, Some("fr")},
      extrasParams : {NULL, Some(Property("foo", "bar")),
                      Some(Property("response_type", "token"))}],
   result : {NULL}]

\* getAuthURL(parameters) is evaluated, the configuration being cached
GetAuthURL ==
  /\ call.phase = "input"
  /\ call.fn = "getAuthURL"
  /\ call' = [call EXCEPT !.phase = "done",
                !.result = Some([url |-> getAuthURL(call.parameters),
                                 href |-> href(getAuthURL(call.parameters))])]
  /\ UNCHANGED <<openIDConfiguration, jwks, encryptionKey, pendingAuthCallbacks,
                 storage, requests, procs, userInfoCache, idt, vat, location>>

\* longest Authorization or Cookie header (in characters) of the requests
\* examined
MaxHeaderLen == 4

\* String.prototype.toLowerCase, for the letters of the headers examined
toLowerCaseCharacter(c) == IF c = "B" THEN "b" ELSE c

toLowerCase(str) == [i \in 1..Len(str) |-> toLowerCaseCharacter(str[i])]

\* the Authorization header of a request, if it has one: "b" and "B" are the
\* letters of a scheme, "t" stands for those of a token
AuthorizationChars == {"b", "B", "t", " "}

AuthorizationHeaders ==
  {NULL} \cup
  {Some(h) : h \in UNION {[1..n -> AuthorizationChars] : n \in 0..MaxHeaderLen}}

\* the schemes a getter is made for
Schemes == {<<"b">>, <<"B">>, <<"b", "b">>}

\* authorizationSchemeGetter(scheme)(req), for the Authorization header of req
authorizationSchemeGetter(scheme, authorization) ==
  IF authorization = NULL THEN NULL
  ELSE LET parts == split(Get(authorization)) IN
       IF Len(parts) # 2 \/ toLowerCase(parts[1]) # scheme THEN NULL
       ELSE Some(parts[2])

AuthorizationCalls ==
  [phase : {"input"}, fn : {"authorizationSchemeGetter"}, scheme : Schemes,
   authorization : AuthorizationHeaders, result : {NULL}]

\* the getter made by authorizationSchemeGetter(scheme) is called with a
\* request
AuthorizationSchemeGetter ==
  /\ call.phase = "input"
  /\ call.fn = "authorizationSchemeGetter"
  /\ call' = [call EXCEPT !.phase = "done",
                !.result = authorizationSchemeGetter(call.scheme, call.authorization)]
  /\ UNCHANGED <<openIDConfiguration, jwks, encryptionKey, pendingAuthCallbacks,
                 storage, requests, procs, userInfoCache, idt, vat, location>>

\* String.prototype.split(separator)
RECURSIVE splitOnFrom(_, _, _, _, _)
splitOnFrom(str, separator, i, piece, pieces) ==
  IF i > Len(str) THEN Append(pieces, piece)
  ELSE IF str[i] = separator
    THEN splitOnFrom(str, separator, i + 1, <<>>, Append(pieces, piece))
  ELSE splitOnFrom(str, separator, i + 1, Append(piece, str[i]), pieces)

splitOn(str, separator) == splitOnFrom(str, separator, 1, <<>>, <<>>)

\* String.prototype.trim
RECURSIVE trimStart(_)
trimStart(str) ==
  IF Len(str) > 0 /\ str[1] = " " THEN trimStart(Tail(str)) ELSE str

RECURSIVE trimEnd(_)
trimEnd(str) ==
  IF Len(str) > 0 /\ str[Len(str)] = " "
    THEN trimEnd(SubSeq(str, 1, Len(str) - 1))
    ELSE str

trim(str) == trimEnd(trimStart(str))

\* String.prototype.indexOf(character): 0-based, -1 when there is none
indexOf(str, c) == findIndex(str, c)

\* String.prototype.slice(begin, end): a negative index counts from the end
slice(str, begin, end) ==
  LET n == Len(str)
      from == IF begin < 0 THEN (IF n + begin < 0 THEN 0 ELSE n + begin)
              ELSE (IF begin > n THEN n ELSE begin)
      to == IF end < 0 THEN (IF n + end < 0 THEN 0 ELSE n + end)
            ELSE (IF end > n THEN n ELSE end)
  IN IF from >= to THEN <<>> ELSE SubSeq(str, from + 1, to)

\* the Cookie header of a request, if it has one: "s" and "v" are the letters
\* of names and values
CookieChars == {"s", "v", "=", ";", " "}

CookieHeaders ==
  {NULL} \cup
  {Some(h) : h \in UNION {[1..n -> CookieChars] : n \in 0..MaxHeaderLen}}

CookieNames == {<<"s">>, <<"v">>}

\* what the loop of cookieGetter reads in the i-th piece of the header
CookieName(cookies, i) ==
  LET cookie == trim(cookies[i])
      semicolonIndex == indexOf(cookie, "=")
  IN slice(cookie, 0, semicolonIndex)

CookieValue(cookies, i) ==
  LET cookie == trim(cookies[i])
      semicolonIndex == indexOf(cookie, "=")
  IN slice(cookie, semicolonIndex + 1, Len(cookie))

\* cookieGetter(cookieName)(req), for the Cookie header of req
cookieGetter(cookieName, cookieHeader) ==
  IF cookieHeader = NULL THEN NULL
  ELSE LET cookies == splitOn(Get(cookieHeader), ";")
           matching == {i \in 1..Len(cookies) : CookieName(cookies, i) = cookieName}
       IN IF matching = {} THEN NULL
          ELSE Some(CookieValue(cookies, CHOOSE i \in matching :
                                           \A j \in matching : i <= j))

CookieCalls ==
  [phase : {"input"}, fn : {"cookieGetter"}, cookieName : CookieNames,
   cookieHeader : CookieHeaders, result : {NULL}]

\* the getter made by cookieGetter(cookieName) is called with a request
CookieGetter ==
  /\ call.phase = "input"
  /\ call.fn = "cookieGetter"
  /\ call' = [call EXCEPT !.phase = "done",
                !.result = cookieGetter(call.cookieName, call.cookieHeader)]
  /\ UNCHANGED <<openIDConfiguration, jwks, encryptionKey, pendingAuthCallbacks,
                 storage, requests, procs, userInfoCache, idt, vat, location>>

\* encodeURIComponent: a space becomes "%20", the other characters outside
\* its safe set their percent-encoding
encodeURIComponentCharacter(c) ==
  CASE c = " " -> "%20"
    [] c = ":" -> "%3A"
    [] c = "/" -> "%2F"
    [] OTHER -> c

RECURSIVE encodeURIComponentText(_)
encodeURIComponentText(text) ==
  IF Len(text) = 0 THEN ""
  ELSE encodeURIComponentCharacter(text[1]) \o encodeURIComponentText(Tail(text))

encodeURIComponent(str) == encodeURIComponentText(Characters(str))

\* serializeQueryString(object), for an object given by its properties in
\* the order of Object.keys
serializeQueryString(object) ==
  joinWith([i \in 1..Len(object) |->
              encodeURIComponent(object[i][1]) \o "=" \o encodeURIComponent(object[i][2])],
           "&")

\* the object Fief.authCallback serializes into the body of its POST to the
\* token endpoint, on a client made with clientSecret
authCallbackPayload(clientSecret, code, redirectURI, codeVerifier) ==
  << <<"grant_type", "authorization_code">>, <<"client_id", ClientId>>,
     <<"code", code>>, <<"redirect_uri", redirectURI>> >>
  \o (IF ~Falsy(clientSecret) THEN << <<"client_secret", Get(clientSecret)>> >> ELSE <<>>)
  \o (IF ~Falsy(codeVerifier) THEN << <<"code_verifier", Get(codeVerifier)>> >> ELSE <<>>)

\* the object Fief.authRefreshToken serializes into the body of its POST
authRefreshTokenPayload(clientSecret, refreshToken, scope) ==
  << <<"grant_type", "refresh_token">>, <<"client_id", ClientId>>,
     <<"refresh_token", refreshToken>> >>
  \o (IF scope # NULL THEN << <<"scope", join(Get(scope))>> >> ELSE <<>>)

\* the clients: made without a secret, with an empty one, with a secret
ClientSecrets == {NULL, Some(""), Some("SECRET")}

AuthCallbackCalls ==
  [phase : {"input"}, fn : {"authCallback"}, clientSecret : ClientSecrets,
   code : Codes, redirectURI : {"https://a/cb"},
   codeVerifier : {NULL, Some(""), Some("V1")}, result : {NULL}]

AuthRefreshTokenCalls ==
  [phase : {"input"}, fn : {"authRefreshToken"}, clientSecret : ClientSecrets,
   refreshToken : {"RT"},
   scope : {NULL, Some(<<"openid">>), Some(<<"openid", "offline_access">>)},
   result : {NULL}]

\* Fief.authCallback posts its request to the token endpoint: the request
\* is one more POST with the code in the log of requests
AuthCallbackRequest ==
  /\ call.phase = "input"
  /\ call.fn = "authCallback"
  /\ LET payload == authCallbackPayload(call.clientSecret, call.code,
                                        call.redirectURI, call.codeVerifier)
     IN call' = [call EXCEPT !.phase = "done",
                   !.result = Some([payload |-> payload,
                                    body |-> serializeQueryString(payload)])]
  /\ requests' = [requests EXCEPT !.token[call.code] = @ + 1]
  /\ UNCHANGED <<openIDConfiguration, jwks, encryptionKey, pendingAuthCallbacks,
                 storage, procs, userInfoCache, idt, vat, location>>

\* Fief.authRefreshToken posts its request to the token endpoint
AuthRefreshTokenRequest ==
  /\ call.phase = "input"
  /\ call.fn = "authRefreshToken"
  /\ LET payload == authRefreshTokenPayload(call.clientSecret, call.refreshToken,
                                            call.scope)
     IN call' = [call EXCEPT !.phase = "done",
                   !.result = Some([payload |-> payload,
                                    body |-> serializeQueryString(payload)])]
  /\ UNCHANGED <<openIDConfiguration, jwks, encryptionKey, pendingAuthCallbacks,
                 storage, requests, procs, userInfoCache, idt, vat, location>>

\* one call of a helper function, on a client whose configuration is cached
InitHelpers ==
  /\ openIDConfiguration = "ok"
  /\ jwks = "undefined"
  /\ encryptionKey = "none"
  /\ pendingAuthCallbacks = {}
  /\ storage = [tokenInfo |-> NULL, userinfo |-> NULL, codeVerifier |-> NULL]
  /\ requests = [config |-> 1, jwks |-> 0, token |-> [c \in Codes |-> 0]]
  /\ procs = [p \in Procs |-> IdleProc]
  /\ userInfoCache = NoCache
  /\ idt = NoProbe
  /\ vat = NoProbe
  /\ location = NULL
  /\ \/ call \in CryptoCalls
     \/ call \in AuthURLCalls
     \/ call \in AuthorizationCalls
     \/ call \in CookieCalls
     \/ call \in AuthCallbackCalls
     \/ call \in AuthRefreshTokenCalls

NextHelpers ==
  \/ GetCodeChallenge
  \/ GetAuthURL
  \/ AuthorizationSchemeGetter
  \/ CookieGetter
  \/ AuthCallbackRequest
  \/ AuthRefreshTokenRequest

SpecHelpers == InitHelpers /\ [][NextHelpers]_vars

Called(fn) == call.phase = "done" /\ call.fn = fn

\* C26, as stated: the S256 challenge of a verifier is the validation hash of
\* the verifier, the short hash used for c_hash and at_hash.
C26_ChallengeIsValidationHash ==
  (Called("getCodeChallenge") /\ call.method = "S256") =>
    call.result = Some(getValidationHash(call.code))

\* C26, amended: the S256 challenge of a verifier is the URL-safe base64 of
\* the whole SHA-256 digest of the verifier; the validation hash is that of
\* the first half of the digest only, so the two differ for every verifier;
\* the plain challenge is the verifier itself.
C26_ChallengeIsWholeDigest ==
  Called("getCodeChallenge") =>
    /\ call.method = "S256" =>
         /\ call.result =
              Some("sha256(" \o call.code \o ").lo+sha256(" \o call.code \o ").hi")
         /\ getValidationHash(call.code) = "sha256(" \o call.code \o ").lo"
         /\ call.result # Some(getValidationHash(call.code))
    /\ call.method = "plain" => call.result = Some(call.code)

\* the S256 challenge of the verifier V1 was derived
C26_Witness ==
  /\ Called("getCodeChallenge")
  /\ call.method = "S256"
  /\ call.code = "V1"
  /\ call.result = Some("sha256(V1).lo+sha256(V1).hi")

\* a string parameter counts as supplied when it is given and not empty
Supplied(o) == o # NULL /\ Get(o) # ""

\* the caller's extra parameters, as an object
ExtrasOf(parameters) ==
  IF parameters.extrasParams = NULL THEN EmptyObject
  ELSE Get(parameters.extrasParams)

\* C27: the URL getAuthURL returns is the authorization endpoint, "?" and a
\* query that always has response_type=code, client_id and redirect_uri, has
\* state, code_challenge, code_challenge_method, scope (joined by spaces) and
\* lang exactly when the caller supplied them, has each extra parameter of the
\* caller, and has no other parameter; for redirectURI https://a/cb and scope
\* [openid] alone it is exactly
\* https://idp/authorize?response_type=code&client_id=ID&redirect_uri=https%3A%2F%2Fa%2Fcb&scope=openid
C27_AuthURLParameters ==
  Called("getAuthURL") =>
    LET prm == call.parameters
        url == Get(call.result).url
        extras == ExtrasOf(prm)
    IN
    /\ url.endpoint = "https://idp/authorize"
    /\ url.params["response_type"] = Some("code")
    /\ url.params["client_id"] = Some("ID")
    /\ url.params["redirect_uri"] = Some(prm.redirectURI)
    /\ url.params["state"] = (IF Supplied(prm.state) THEN prm.state ELSE NULL)
    /\ url.params["code_challenge"] =
         (IF Supplied(prm.codeChallenge) THEN prm.codeChallenge ELSE NULL)
    /\ url.params["code_challenge_method"] =
         (IF Supplied(prm.codeChallengeMethod) THEN prm.codeChallengeMethod ELSE NULL)
    /\ url.params["lang"] = (IF Supplied(prm.lang) THEN prm.lang ELSE NULL)
    /\ url.params["scope"] =
         (IF prm.scope = NULL THEN NULL
          ELSE IF Get(prm.scope) = <<"openid">> THEN Some("openid")
          ELSE Some("openid profile"))
    /\ \A k \in Keys : extras[k] # NULL => url.params[k] = extras[k]
    /\ url.params["foo"] = extras["foo"]
    /\ ( prm = [redirectURI |-> "https://a/cb", state |-> NULL,
                scope |-> Some(<<"openid">>), codeChallenge |-> NULL,
                codeChallengeMethod |-> NULL, lang |-> NULL, extrasParams |-> NULL] )
       => Get(call.result).href =
            "https://idp/authorize?response_type=code&client_id=ID&redirect_uri=https%3A%2F%2Fa%2Fcb&scope=openid"

\* the extra parameters of the caller are named like none of the parameters
\* getAuthURL sets itself
NoExtraOverrides ==
  \A k \in Keys \ {"foo"} : ExtrasOf(call.parameters)[k] = NULL

\* the same holds of every call whose extra parameters override nothing
C27_AuthURLParametersUnlessOverridden ==
  (Called("getAuthURL") /\ NoExtraOverrides) => C27_AuthURLParameters

\* the positions of the spaces of a header
SpacesOf(h) == {i \in 1..Len(h) : h[i] = " "}

\* C28: the getter returns the token exactly when the Authorization header is
\* two parts separated by one space of which the first equals the configured
\* scheme ignoring letter case; it returns null when the header is absent, is
\* one part, has more parts, or names another scheme.
C28_SchemeMatchedIgnoringCase ==
  Called("authorizationSchemeGetter") =>
    IF call.authorization = NULL THEN call.result = NULL
    ELSE LET h == Get(call.authorization) IN
         IF Cardinality(SpacesOf(h)) # 1 THEN call.result = NULL
         ELSE LET i == CHOOSE i \in SpacesOf(h) : TRUE IN
              IF toLowerCase(SubSeq(h, 1, i - 1)) = toLowerCase(call.scheme)
                THEN call.result = Some(SubSeq(h, i + 1, Len(h)))
                ELSE call.result = NULL

\* the same for a getter made for a scheme written in lower case
C28_LowerCaseSchemeMatched ==
  (Called("authorizationSchemeGetter") /\ toLowerCase(call.scheme) = call.scheme)
    => C28_SchemeMatchedIgnoringCase

\* the pairs of a Cookie header: its pieces between semicolons, without the
\* spaces around them, that have an equals sign
Pieces(cookieHeader) ==
  IF cookieHeader = NULL THEN <<>>
  ELSE LET cookies == splitOn(Get(cookieHeader), ";")
       IN [i \in 1..Len(cookies) |-> trim(cookies[i])]

IsPair(piece) == \E i \in 1..Len(piece) : piece[i] = "="

FirstEquals(piece) ==
  CHOOSE i \in 1..Len(piece) :
    piece[i] = "=" /\ \A j \in 1..(i - 1) : piece[j] # "="

PairName(piece) == SubSeq(piece, 1, FirstEquals(piece) - 1)
PairValue(piece) == SubSeq(piece, FirstEquals(piece) + 1, Len(piece))

\* C29: the getter returns a token exactly when the Cookie header has a pair
\* name=value whose name is cookieName, and then the value of the first such
\* pair; it returns null when there is no Cookie header or no such pair.
C29_CookieByName ==
  Called("cookieGetter") =>
    LET pieces == Pieces(call.cookieHeader)
        named == {i \in 1..Len(pieces) :
                    IsPair(pieces[i]) /\ PairName(pieces[i]) = call.cookieName}
    IN IF named = {} THEN call.result = NULL
       ELSE call.result =
              Some(PairValue(pieces[CHOOSE i \in named : \A j \in named : i <= j]))

\* every piece of the Cookie header is a pair
OnlyPairs ==
  \A i \in 1..Len(Pieces(call.cookieHeader)) : IsPair(Pieces(call.cookieHeader)[i])

\* the same for the headers made of pairs only
C29_CookieByNameAmongPairs ==
  (Called("cookieGetter") /\ OnlyPairs) => C29_CookieByName

\* C30: at every moment the pending set holds exactly the codes whose exchange
\* was started by an authCallback invocation and has not settled yet: a code
\* is in it from the start of its exchange and out of it once the exchange has
\* settled, successfully or not.
C30_PendingSetIsExchangesInFlight ==
  pendingAuthCallbacks = {c \in Codes : ExchangesInFlight(c) # {}}

\* the same as long as no exchange has failed: the set is then the codes in
\* exchange
C30_PendingSetUnlessFailed ==
  (\A p \in Procs : procs[p].result \notin ExchangeFailures)
    => C30_PendingSetIsExchangesInFlight

----------------------------------------------------------------------------
(* The operations of the three layers on one client, with every way a request
   can fail: the Facade operations and the orchestrator operations in a
   browser, redirectToLogin, and the request authentication of a server *)

\* what a well-behaved provider answers: the identity of the user, the
\* tokens of the exchange of CODE1, and the tokens of a refresh
ProviderUserInfo == [sub |-> "U1", email |-> "a@fief"]

ProviderTokenResponse ==
  [access_token |-> Some(AccessTokenOf("CODE1")),
   id_token |-> ProviderIdToken("CODE1", AccessTokenOf("CODE1"))]

ProviderRefreshTokenResponse ==
  [access_token |-> Some("AT2"),
   id_token |-> [ProviderIdToken("CODE1", "AT2") EXCEPT !.c_hash = NULL]]

\* the parameters the application calls redirectToLogin with
NoLoginParameters ==
  [state |-> NULL, scope |-> NULL, lang |-> NULL, extrasParams |-> NULL]

\* invocation p is made in a browser, resp. by a handler of a server
InBrowser(p) ==
  procs[p].parameters # NULL /\ "state" \in DOMAIN Get(procs[p].parameters)

InServer(p) ==
  procs[p].parameters # NULL /\ "optional" \in DOMAIN Get(procs[p].parameters)

\* a browser FiefAuth on a fresh client with a session in its storage, whose
\* application calls redirectToLogin without parameters, or a server FiefAuth
\* with an identity cache and a handler without a requirement that is not
\* optional, refreshing the identity or not
InitOperations ==
  \/ /\ openIDConfiguration = "undefined"
     /\ jwks = "undefined"
     /\ encryptionKey = "none"
     /\ pendingAuthCallbacks = {}
     /\ storage = StoredSession
     /\ requests = [config |-> 0, jwks |-> 0, token |-> [c \in Codes |-> 0]]
     /\ procs = [p \in Procs |->
                   [IdleProc EXCEPT !.parameters = Some(NoLoginParameters)]]
     /\ userInfoCache = NoCache
     /\ idt = NoProbe
     /\ vat = NoProbe
     /\ call = NoProbe
     /\ location = NULL
  \/ /\ InitAuth
     /\ LET q == Get(procs[1].parameters)
        IN q.optional = NULL /\ q.scope = NULL /\ q.acr = NULL /\ q.permissions = NULL
     /\ userInfoCache.configured

\* in a browser the application calls, in any order and overlapping, the
\* operations of FiefAuth and of its client; on a server the handler made by
\* authenticate(parameters) is called
NextOperations ==
  \/ \E p \in Procs :
       /\ NextToStart(p) /\ InBrowser(p)
       /\ authCallback(p, [error |-> NULL, error_description |-> NULL,
                           code |-> Some("CODE1")])
  \/ \E p \in Procs : NextToStart(p) /\ InBrowser(p) /\ authRefreshToken(p)
  \/ \E p \in Procs : NextToStart(p) /\ InBrowser(p) /\ userinfo(p)
  \/ \E p \in Procs, op \in ProfileOperations :
       NextToStart(p) /\ InBrowser(p) /\ ProfileRequest(p, op)
  \/ \E p \in Procs : NextToStart(p) /\ InBrowser(p) /\ refreshUserinfo(p)
  \/ \E p \in Procs :
       NextToStart(p) /\ InBrowser(p) /\ logout(p, "https://app/bye")
  \/ \E p \in Procs : LogoutRedirect(p)
  \/ \E p \in Procs, codeVerifier \in CodeVerifiers :
       NextToStart(p) /\ InBrowser(p) /\ RedirectToLogin(p, codeVerifier)
  \/ \E p \in Procs :
       NextToStart(p) /\ InServer(p) /\ Authenticate(p, Some(GoodToken("U1")))
  \/ \E p \in Procs, outcome \in NetOutcomes : ConfigResponse(p, outcome)
  \/ \E p \in Procs : ConfigReady(p)
  \/ \E p \in Procs, outcome \in NetOutcomes :
       TokenResponse(p, outcome, ProviderTokenResponse)
  \/ \E p \in Procs, outcome \in NetOutcomes :
       RefreshTokenResponse(p, outcome, ProviderRefreshTokenResponse)
  \/ \E p \in Procs, outcome \in NetOutcomes : JWKSResponse(p, outcome)
  \/ \E p \in Procs : VerifyIDToken(p)
  \/ \E p \in Procs : StoreSession(p)
  \/ \E p \in Procs, outcome \in NetOutcomes :
       ApiResponse(p, outcome, ProviderUserInfo)
  \/ \E p \in Procs, outcome \in NetOutcomes :
       RefreshUserinfoResponse(p, outcome, ProviderUserInfo)
  \/ \E p \in Procs : Validate(p)
  \/ \E p \in Procs : CacheGet(p)
  \/ \E p \in Procs : FetchOrReturn(p)
  \/ \E p \in Procs, outcome \in NetOutcomes :
       /\ procs[p].op = "authenticate"
       /\ UserinfoResponse(p, outcome, ProviderUserInfo)
  \/ \E p \in Procs : CacheSet(p)
  \/ \E p \in Procs : ReturnResult(p)

SpecOperations == InitOperations /\ [][NextOperations]_vars

----------------------------------------------------------------------------
(* Claims about retries, the stored session and the middleware *)

\* the provider endpoints an invocation sends requests to
Endpoints == {"config", "jwks", "token", "userinfo", "api"}

\* the request invocation p awaits the answer of fails in this step: the
\* answer has an error status or an unreadable body, or the fetch rejects
FailedRequest(p) ==
  /\ Awaits(p)
  /\ procs'[p] # procs[p]
  /\ \/ /\ procs'[p].thrown # procs[p].thrown
        /\ \E response \in Responses :
             handleRequestError(response) # NULL /\ Respond(p, response)
     \/ \E outcome \in NetOutcomes \ {"ok"} :
          \/ ConfigResponse(p, outcome)
          \/ JWKSResponse(p, outcome)
          \/ \E c \in Codes : \E data \in TokenResponses(c) : TokenResponse(p, outcome, data)
          \/ \E data \in RefreshTokenResponses : RefreshTokenResponse(p, outcome, data)
          \/ \E data \in UserInfos("U1") : ApiResponse(p, outcome, data)
          \/ \E data \in UserInfos("U1") : RefreshUserinfoResponse(p, outcome, data)
          \/ /\ procs[p].op = "authenticate"
             /\ \E sub \in {"U1", "U2"} : \E data \in UserInfos(sub) :
                  UserinfoResponse(p, outcome, data)

\* invocation p awaits the configuration promise of a body that is not JSON
AwaitsRejection(p) == procs[p].pc = "cfg_ready" /\ procs[p].cfg = "rejected"

\* C31: no operation retries.  Within one invocation every endpoint receives
\* at most one request, and a request that fails settles the invocation with
\* the error, without a request being sent: in the step in which it fails,
\* or, for a configuration document that is not JSON, in the step in which
\* the invocation resumes.
C31_NoRetry ==
  [][\A p \in Procs :
       /\ \A e \in Endpoints : procs'[p].sent[e] <= 1
       /\ FailedRequest(p) =>
            /\ \/ /\ procs'[p].pc = "done"
                  /\ procs'[p].result \in
                       {"FiefRequestError", "SyntaxError", "AbortError"}
               \/ /\ procs[p].pc = "cfg_wait"
                  /\ procs'[p].pc = "cfg_ready" /\ procs'[p].cfg = "rejected"
            /\ procs'[p].sent = procs[p].sent
            /\ requests' = requests
            /\ \A q \in Procs \ {p} : procs'[q] = procs[q]
       /\ (AwaitsRejection(p) /\ procs'[p] # procs[p]) =>
            /\ procs'[p].pc = "done"
            /\ procs'[p].result = "SyntaxError"
            /\ procs'[p].sent = procs[p].sent
            /\ requests' = requests]_vars

\* an authCallback whose token request was answered with an error status has
\* settled with the request error, having sent one configuration request and
\* one token request
C31_Witness ==
  \E p \in Procs :
    /\ procs[p].op = "authCallback" /\ procs[p].pc = "done"
    /\ procs[p].result = "FiefRequestError"
    /\ procs[p].sent = [config |-> 1, jwks |-> 0, token |-> 1, userinfo |-> 0, api |-> 0]

\* FiefAuth.isAuthenticated() and FiefAuth.getUserinfo()
isAuthenticated == storage.tokenInfo # NULL
getUserinfo == storage.userinfo

\* invocation p of the browser authCallback, made with a code in the
\* location, completes in this step without raising
CallbackCompletes(p) ==
  /\ procs'[p].op = "authCallback"
  /\ procs[p].pc # "done" /\ procs'[p].pc = "done"
  /\ procs'[p].code # NULL
  /\ procs'[p].result \in {"ok", "returned"}

\* the storage holds a token response of the endpoint for the code of
\* invocation p and the identity claims of its ID token
HoldsSessionOf(p) ==
  /\ \E response \in TokenResponses(Get(procs'[p].code)) :
       /\ storage'.tokenInfo = Some(response)
       /\ storage'.userinfo = Some(Claims(response.id_token))
  /\ isAuthenticated'

\* C32, as stated: whenever a browser authCallback whose location carries a
\* code completes without raising, the storage holds the token response and
\* the identity claims obtained for that code, and isAuthenticated() is true.
C32_CompletedCallbackHoldsSession ==
  [][\A p \in Procs : CallbackCompletes(p) => HoldsSessionOf(p)]_vars

\* C32, amended: that holds of the invocations that exchanged the code (the
\* stored pair is the one the client returned to them); an invocation that
\* found its code in the pending set completes without raising and leaves
\* the storage as it was.
C32_ExchangingCallbackHoldsSession ==
  [][\A p \in Procs :
       CallbackCompletes(p) =>
         IF procs'[p].result = "ok"
           THEN /\ HoldsSessionOf(p)
                /\ storage'.tokenInfo = procs[p].data
                /\ storage'.userinfo = procs[p].claims
           ELSE /\ procs[p].pc = "idle"
                /\ Get(procs'[p].code) \in pendingAuthCallbacks
                /\ storage' = storage]_vars

\* a callback has exchanged CODE1 and completed, and the storage holds the
\* provider's token response for CODE1 and the claims of its ID token
C32_Witness ==
  \E p \in Procs :
    /\ procs[p].op = "authCallback" /\ procs[p].pc = "done"
    /\ procs[p].result = "ok" /\ procs[p].code = Some("CODE1")
    /\ storage.tokenInfo = procs[p].data
    /\ Get(storage.tokenInfo).access_token = Some("AT1")
    /\ storage.userinfo = Some(Claims(ProviderIdToken("CODE1", "AT1")))
    /\ isAuthenticated

\* the stored token info and user info were obtained together: they are the
\* session the instance started with, the pair a callback stored, or the
\* token info and the identity a refreshUserinfo fetched with its access token
ObtainedTogether ==
  \/ /\ storage.tokenInfo = StoredSession.tokenInfo
     /\ storage.userinfo = StoredSession.userinfo
  \/ \E q \in Procs :
       /\ procs[q].op = "authCallback" /\ procs[q].result = "ok"
       /\ storage.tokenInfo = procs[q].data
       /\ storage.userinfo = procs[q].claims
  \/ \E q \in Procs :
       /\ procs[q].op = "refreshUserinfo" /\ procs[q].result = "ok"
       /\ procs[q].token = Get(storage.tokenInfo).access_token
       /\ storage.userinfo = procs[q].user

\* C33: in every reachable state, whatever the interleaving of authCallback,
\* refreshUserinfo and logout, user info is in the storage only if token info
\* is, and the two were obtained with the same access token.
C33_UserinfoOnlyWithItsTokenInfo ==
  getUserinfo # NULL => (isAuthenticated /\ ObtainedTogether)

----------------------------------------------------------------------------
(* The Express middleware *)

\* the catch clause of the middleware: the function called for an error of
\* authenticate, or for its result
middleware(result) ==
  IF result = "FiefAuthUnauthorized" THEN "unauthorizedResponse"
  ELSE IF result = "FiefAuthForbidden" THEN "forbiddenResponse"
  ELSE "next"

\* the middleware goes on once `await authenticate(req)` has settled: with a
\* result it sets req.accessTokenInfo and req.user, which it had set to null
\* before the call
Middleware(p) ==
  /\ procs[p].op = "authenticate"
  /\ procs[p].pc = "done"
  /\ procs[p].handler = "none"
  /\ procs' = [procs EXCEPT
       ![p].handler = middleware(procs[p].result),
       ![p].req = IF procs[p].result = "ok"
                    THEN [accessTokenInfo |-> procs[p].accessTokenInfo,
                          user |-> procs[p].user]
                    ELSE [accessTokenInfo |-> NULL, user |-> NULL]]
  /\ UNCHANGED <<openIDConfiguration, jwks, encryptionKey, pendingAuthCallbacks,
                 storage, requests, userInfoCache, callVars, location>>

NextExpress ==
  \/ NextAuth
  \/ \E p \in Procs : Middleware(p)

\* the middleware fiefAuth(parameters)(authenticatedParameters) on an Express
\* application
SpecExpress == InitAuth /\ [][NextExpress]_vars

\* C34: a middleware created without optional invokes the downstream handler
\* only if authenticate returned a validated access token, that is only with
\* req.accessTokenInfo not null; every failure of authenticate, whatever the
\* error, ends the request without invoking the handler.
C34_NextOnlyWithValidatedToken ==
  \A p \in Procs :
    (procs[p].op = "authenticate" /\ ~OptionalSet(p) /\ procs[p].handler # "none") =>
      /\ procs[p].handler = "next" =>
           /\ procs[p].result = "ok"
           /\ procs[p].req.accessTokenInfo # NULL
      /\ procs[p].result # "ok" => procs[p].handler # "next"

\* the same for the two errors the middleware answers itself, and for the
\* requests authenticate accepted
C34_NextUnlessUnauthorizedOrForbidden ==
  \A p \in Procs :
    (procs[p].op = "authenticate" /\ ~OptionalSet(p) /\ procs[p].handler # "none") =>
      /\ procs[p].result = "FiefAuthUnauthorized" =>
           procs[p].handler = "unauthorizedResponse"
      /\ procs[p].result = "FiefAuthForbidden" =>
           procs[p].handler = "forbiddenResponse"
      /\ procs[p].result = "ok" =>
           /\ procs[p].handler = "next"
           /\ procs[p].req.accessTokenInfo = procs[p].accessTokenInfo
           /\ procs[p].req.accessTokenInfo # NULL
      /\ procs[p].result \notin {"ok", "FiefAuthUnauthorized", "FiefAuthForbidden"} =>
           /\ procs[p].handler = "next"
           /\ procs[p].req.accessTokenInfo = NULL

----------------------------------------------------------------------------
(* Claims about the parameters of the authorization and token requests *)

\* the three parameters every authorization URL carries
CoreParameters == {"response_type", "client_id", "redirect_uri"}

\* C35: whatever extrasParams the caller passes, the URL of getAuthURL has
\* response_type=code, the client's id as client_id and the redirectURI
\* argument as redirect_uri; the extra parameters add keys and replace none
\* of these three.
C35_ExtrasNeverReplaceCoreParameters ==
  Called("getAuthURL") =>
    LET url == Get(call.result).url IN
    /\ url.params["response_type"] = Some("code")
    /\ url.params["client_id"] = Some(ClientId)
    /\ url.params["redirect_uri"] = Some(call.parameters.redirectURI)
    /\ \A k \in Keys \ CoreParameters :
         ExtrasOf(call.parameters)[k] # NULL =>
           url.params[k] = ExtrasOf(call.parameters)[k]

\* the same for the calls whose extra parameters name none of the three
C35_CoreParametersUnlessNamed ==
  ( /\ Called("getAuthURL")
    /\ \A k \in CoreParameters : ExtrasOf(call.parameters)[k] = NULL )
    => C35_ExtrasNeverReplaceCoreParameters

\* the value a request payload gives to a key, if it has the key
ValueOf(payload, key) ==
  {payload[i][2] : i \in {j \in 1..Len(payload) : payload[j][1] = key}}

\* C36: on a client configured with a client secret every request to the
\* token endpoint, of the authorization_code grant and of the refresh_token
\* grant alike, carries that client_secret; without a secret none carries one.
C36_SecretInEveryTokenRequest ==
  (Called("authCallback") \/ Called("authRefreshToken")) =>
    ValueOf(Get(call.result).payload, "client_secret") =
      (IF Supplied(call.clientSecret) THEN call.clientSecret ELSE NULL)

\* the same for the requests of the authorization_code grant, whose body is
\* the serialized payload; no request of the refresh_token grant carries a
\* client_secret
C36_SecretInCodeExchangeOnly ==
  /\ Called("authCallback") => C36_SecretInEveryTokenRequest
  /\ ( /\ Called("authCallback")
       /\ call.clientSecret = Some("SECRET") /\ call.code = "CODE1"
       /\ call.codeVerifier = NULL )
     => Get(call.result).body =
          "grant_type=authorization_code&client_id=ID&code=CODE1&redirect_uri=https%3A%2F%2Fa%2Fcb&client_secret=SECRET"
  /\ Called("authRefreshToken") =>
       ValueOf(Get(call.result).payload, "client_secret") = NULL

----------------------------------------------------------------------------
(* Claims about the refresh grant, the request authentication and the order
   of the requests of a code exchange *)

\* invocation p of authRefreshToken has settled after the verification of the
\* ID token of a 2xx answer
RefreshVerified(p) ==
  /\ procs[p].op = "authRefreshToken"
  /\ procs[p].pc = "done"
  /\ procs[p].data # NULL
  /\ procs[p].result \in {"ok", "FiefIdTokenInvalid"}

\* the ID token of the answer is signed by the provider, has not expired, and
\* its at_hash, if it has one, is the hash of the access token of the answer
SignedAndBoundToAccessToken(p) ==
  LET data == Get(procs[p].data) IN
  /\ data.id_token.sig \in ProviderKeys
  /\ data.id_token.exp = "future"
  /\ data.id_token.at_hash # NULL =>
       /\ data.access_token # NULL
       /\ Get(data.id_token.at_hash) = getValidationHash(Get(data.access_token))

\* C37, as stated: authRefreshToken accepts a correctly signed, unexpired ID
\* token whenever its at_hash matches the returned access token; a c_hash
\* claim, which a refresh has no code to check against, does not make it
\* reject the token.
C37_RefreshAcceptsDespiteCHash ==
  \A p \in Procs :
    (RefreshVerified(p) /\ SignedAndBoundToAccessToken(p)) =>
      procs[p].result = "ok"

\* C37, amended: such a token is accepted exactly when it carries no c_hash;
\* with a c_hash the refresh raises FiefIdTokenInvalid and returns no claims.
C37_RefreshRejectsCHash ==
  \A p \in Procs :
    (RefreshVerified(p) /\ SignedAndBoundToAccessToken(p)) =>
      IF Get(procs[p].data).id_token.c_hash = NULL
        THEN /\ procs[p].result = "ok"
             /\ procs[p].claims = Some(Claims(Get(procs[p].data).id_token))
        ELSE /\ procs[p].result = "FiefIdTokenInvalid"
             /\ procs[p].claims = NULL

\* a refresh whose answer carried a signed ID token bound to its access token
\* and carrying the c_hash of a code was refused
C37_Witness ==
  \E p \in Procs :
    /\ RefreshVerified(p) /\ SignedAndBoundToAccessToken(p)
    /\ Get(procs[p].data).id_token.c_hash = Some(getValidationHash("CODE1"))
    /\ procs[p].result = "FiefIdTokenInvalid"

\* the handler of request p returns its result in this step
ReturnsResult(p) ==
  /\ procs'[p].op = "authenticate"
  /\ procs[p].pc # "done" /\ procs'[p].pc = "done"
  /\ procs'[p].result = "ok"

\* the userinfo request of request p fails in this step
UserinfoFails(p, outcome) ==
  /\ procs[p].op = "authenticate"
  /\ procs[p].pc = "userinfo_wait"
  /\ \E data \in UserInfos(Subject(p)) : UserinfoResponse(p, outcome, data)

\* in the result request p returns, user is set only with accessTokenInfo,
\* and accessTokenInfo is what validateAccessToken returned for the token of
\* the request
ResultOfValidation(p) ==
  /\ procs'[p].user # NULL => procs'[p].accessTokenInfo # NULL
  /\ procs'[p].accessTokenInfo # NULL =>
       /\ procs'[p].token # NULL
       /\ LET r == validateAccessTokenOfHandler(Get(procs'[p].token), Parameters(p))
          IN r.error = "none" /\ r.info = procs'[p].accessTokenInfo

\* a failed userinfo request reaches the caller as it is and leaves the cache
\* as it was
FailedUserinfoSurfaces(p) ==
  \A outcome \in NetOutcomes \ {"ok"} :
    UserinfoFails(p, outcome) =>
      /\ procs'[p].pc = "done"
      /\ procs'[p].result = NetError(outcome)
      /\ userInfoCache' = userInfoCache

\* C38, as stated: in every result authenticate returns, user is set only if
\* accessTokenInfo is, accessTokenInfo only if validateAccessToken succeeded
\* on the token, and a user is the identity the cache holds under
\* accessTokenInfo.id at the moment of return; a failed userinfo request
\* reaches the caller unchanged and leaves the cache entry unchanged.
C38_UserIsCachedIdentityAtReturn ==
  [][\A p \in Procs :
       /\ ReturnsResult(p) =>
            /\ ResultOfValidation(p)
            /\ procs'[p].user # NULL =>
                 /\ userInfoCache.configured
                 /\ userInfoCache'.entries[Get(procs'[p].accessTokenInfo).id]
                      = procs'[p].user
       /\ FailedUserinfoSurfaces(p)]_vars

\* C38, amended: a user in the result is the identity the handler read from
\* the cache under accessTokenInfo.id, or the one it fetched and wrote to the
\* cache under accessTokenInfo.id before returning; the entry may have been
\* replaced by another request by the time the handler returns.
C38_UserIsIdentityReadOrStored ==
  [][\A p \in Procs :
       /\ ReturnsResult(p) =>
            /\ ResultOfValidation(p)
            /\ procs'[p].user = procs[p].user
            /\ procs'[p].user # NULL =>
                 /\ userInfoCache.configured
                 /\ procs[p].pc \in {"cache_got", "cache_stored"}
                 /\ procs[p].pc = "cache_got" => procs[p].calls.set = 0
                 /\ procs[p].pc = "cache_stored" => procs[p].calls.set = 1
       /\ (procs[p].pc = "cache_get" /\ procs'[p].pc # "cache_get") =>
            /\ procs'[p].pc = "cache_got"
            /\ procs'[p].user = userInfoCache.entries[Get(procs[p].accessTokenInfo).id]
       /\ (procs[p].pc = "cache_set" /\ procs'[p].pc # "cache_set") =>
            /\ procs'[p].pc = "cache_stored"
            /\ procs'[p].user = procs[p].user
            /\ userInfoCache'.entries[Get(procs[p].accessTokenInfo).id] = procs[p].user
       /\ FailedUserinfoSurfaces(p)]_vars

\* a handler returned the identity it had fetched and stored while the cache,
\* written by another request since, holds another identity for the subject
C38_Witness ==
  \E p \in Procs :
    /\ procs[p].op = "authenticate" /\ procs[p].pc = "done"
    /\ procs[p].result = "ok"
    /\ procs[p].user # NULL
    /\ procs[p].calls.set = 1
    /\ userInfoCache.entries[Get(procs[p].accessTokenInfo).id] # procs[p].user

\* authCallback invocation p fails in this step with the error of the
\* request it awaits, a GET of the configuration document or of jwks_uri
DiscoveryFails(p) ==
  /\ procs[p].op = "authCallback"
  /\ \/ procs[p].pc \in {"cfg_wait", "jwks_wait"}
     \/ procs[p].pc = "cfg_ready" /\ procs[p].cfg = "rejected"
  /\ procs'[p].pc = "done"
  /\ procs'[p].result \in {"FiefRequestError", "SyntaxError", "AbortError"}

\* C39: when authCallback fails with the error of the configuration request
\* or of the JWKS request, it has sent no request to the token endpoint: the
\* authorization code has not been used.
C39_CodeSentAfterDiscovery ==
  [][\A p \in Procs :
       DiscoveryFails(p) =>
         /\ procs'[p].sent.token = 0
         /\ requests'.token[Get(procs[p].code)] = requests.token[Get(procs[p].code)]]_vars

\* what the code does: the configuration is fetched before the code is
\* posted, and the key set after it, so a failed JWKS request is the failure
\* of an invocation that has posted its code and dropped the tokens it got
C39_ConfigurationBeforeCodeBeforeJWKS ==
  [][\A p \in Procs :
       DiscoveryFails(p) =>
         /\ (procs[p].pc \in {"cfg_wait", "cfg_ready"} /\ procs[p].after = "token")
              => procs'[p].sent.token = 0
         /\ (procs[p].pc = "jwks_wait" \/ procs[p].after = "jwks")
              => /\ procs'[p].sent.token = 1
                 /\ procs[p].data # NULL]_vars

====
